---- MODULE Spec2Model ----
(***************************************************************************)
(* Model of the coob restore subsystem of gonsovsky/atoll, and of the     *)
(* make command of its tool set.                                           *)
(*                                                                         *)
(* Two implementations of the restore run live in the repository:          *)
(*   - PowerShell: Coral.Composition.Bundle.psm1 (Restore-Composition),    *)
(*   - JavaScript: Source/Tools/ccm/restore/restore.js (RestoreUnit) with  *)
(*     its command wrapper RestoreCoobsCommand and the ccm command line.   *)
(* Strings are sequences of one-character strings, so that splitting,      *)
(* prefix/suffix tests, substring replacement, regular expression matches  *)
(* and number formatting are computed as the code computes them.           *)
(*                                                                         *)
(* Specifications: Spec (one restore run), RerunSpec (the run repeated),   *)
(* LatestSpec (latest-version selection), ValidSpec (IsValidVersion),      *)
(* CompareSpec (versionCompare), DependencySpec (ReadCoobVersions),       *)
(* MakeSpec (MakeCommand), CheckSpec (CheckVersions), ChooseSpec           *)
(* (ChooseFreeFsName).                                                     *)
(***************************************************************************)
EXTENDS Integers, Sequences, FiniteSets, TLC

(***************************************************************************)
(* Bounds of the model.                                                    *)
(***************************************************************************)
\* longest catalog listing explored for the latest-version selection
MaxListing == 2
\* largest number of dependencies declared by a root manifest
MaxDeps == 2

(***************************************************************************)
(* Strings.                                                                *)
(***************************************************************************)
Digit == {"0", "1", "2", "3", "4", "5", "6", "7", "8", "9"}

DigitVal == ("0" :> 0) @@ ("1" :> 1) @@ ("2" :> 2) @@ ("3" :> 3) @@ ("4" :> 4)
            @@ ("5" :> 5) @@ ("6" :> 6) @@ ("7" :> 7) @@ ("8" :> 8) @@ ("9" :> 9)

DigitChar == <<"0", "1", "2", "3", "4", "5", "6", "7", "8", "9">>

DOT == <<".">>

\* String.prototype.startsWith / String.StartsWith
StartsWith(s, p) == Len(p) <= Len(s) /\ SubSeq(s, 1, Len(p)) = p

\* String.prototype.endsWith / String.EndsWith
EndsWith(s, p) == Len(p) <= Len(s) /\ SubSeq(s, Len(s) - Len(p) + 1, Len(s)) = p

\* position of the first occurrence of the one-character string c in s, 0 when absent
CharIndex(s, c) ==
    IF \E i \in 1..Len(s) : s[i] = c
    THEN CHOOSE i \in 1..Len(s) : s[i] = c /\ \A j \in 1..(i - 1) : s[j] # c
    ELSE 0

\* String.prototype.split(c): the pieces between the separators, "" gives [""]
RECURSIVE Split(_, _)
Split(s, c) ==
    LET i == CharIndex(s, c)
    IN IF i = 0 THEN <<s>>
       ELSE <<SubSeq(s, 1, i - 1)>> \o Split(SubSeq(s, i + 1, Len(s)), c)

\* Array.prototype.join(c)
RECURSIVE Join(_, _)
Join(parts, c) ==
    IF parts = <<>> THEN <<>>
    ELSE IF Len(parts) = 1 THEN parts[1]
    ELSE parts[1] \o <<c>> \o Join(Tail(parts), c)

\* String.prototype.indexOf(t) + 1, 0 when t does not occur in s
IndexOf(s, t) ==
    LET fits(i) == i + Len(t) - 1 <= Len(s) /\ SubSeq(s, i, i + Len(t) - 1) = t
    IN IF \E i \in 1..(Len(s) + 1) : fits(i)
       THEN CHOOSE i \in 1..(Len(s) + 1) : fits(i) /\ \A j \in 1..(i - 1) : ~fits(j)
       ELSE 0

\* String.prototype.replace(t, ''): removes the first occurrence of t only
ReplaceFirstWithEmpty(s, t) ==
    LET i == IndexOf(s, t)
    IN IF i = 0 THEN s
       ELSE SubSeq(s, 1, i - 1) \o SubSeq(s, i + Len(t), Len(s))

\* the regular expression /^\d+$/
IsNumeric(s) == Len(s) >= 1 /\ \A i \in 1..Len(s) : s[i] \in Digit

\* leading zeros removed (the number a digit string denotes, as a digit string)
RECURSIVE StripZeros(_)
StripZeros(s) ==
    IF Len(s) > 1 /\ s[1] = "0" THEN StripZeros(Tail(s)) ELSE s

Int32MaxDigits == <<"2", "1", "4", "7", "4", "8", "3", "6", "4", "7">>

\* lexicographic <= on digit strings of equal length
RECURSIVE DigitsLeq(_, _)
DigitsLeq(a, b) ==
    IF a = <<>> THEN TRUE
    ELSE IF DigitVal[a[1]] < DigitVal[b[1]] THEN TRUE
    ELSE IF DigitVal[a[1]] > DigitVal[b[1]] THEN FALSE
    ELSE DigitsLeq(Tail(a), Tail(b))

\* the digit string denotes a value of at most 2147483647
InInt32Range(s) ==
    LET t == StripZeros(s)
    IN \/ Len(t) < Len(Int32MaxDigits)
       \/ Len(t) = Len(Int32MaxDigits) /\ DigitsLeq(t, Int32MaxDigits)

\* Number(s) / Int32.Parse(s) of a digit string in range
RECURSIVE ToNumber(_)
ToNumber(s) ==
    IF s = <<>> THEN 0
    ELSE ToNumber(SubSeq(s, 1, Len(s) - 1)) * 10 + DigitVal[s[Len(s)]]

\* Int32.ToString()
RECURSIVE IntToStr(_)
IntToStr(n) ==
    IF n < 10 THEN <<DigitChar[n + 1]>>
    ELSE IntToStr(n \div 10) \o <<DigitChar[(n % 10) + 1]>>

(***************************************************************************)
(* System.Version, as used by Get-LatestCoobVersion.  A parsed version is  *)
(* the sequence of its 2..4 components; NullVersion is $null.              *)
(***************************************************************************)
NullVersion == <<>>

\* [System.Version]::TryParse: 2..4 components, each a non-negative Int32
\* (leading zeros are accepted by Int32.TryParse)
VersionTryParse(s) ==
    LET parts == Split(s, ".")
    IN IF /\ Len(parts) >= 2
          /\ Len(parts) <= 4
          /\ \A i \in 1..Len(parts) : IsNumeric(parts[i]) /\ InInt32Range(parts[i])
       THEN [i \in 1..Len(parts) |-> ToNumber(parts[i])]
       ELSE NullVersion

\* Major, Minor, Build, Revision; an absent Build or Revision is -1
VersionField(v, i) == IF i <= Len(v) THEN v[i] ELSE -1

\* System.Version.CompareTo
RECURSIVE VersionCompareFrom(_, _, _)
VersionCompareFrom(a, b, i) ==
    IF i > 4 THEN 0
    ELSE IF VersionField(a, i) > VersionField(b, i) THEN 1
    ELSE IF VersionField(a, i) < VersionField(b, i) THEN -1
    ELSE VersionCompareFrom(a, b, i + 1)

VersionCompareTo(a, b) == VersionCompareFrom(a, b, 1)

\* a conversion that keeps Major and Minor only
VersionToStringMajorMinor(v) ==
    IF v = NullVersion THEN <<>>
    ELSE Join([i \in 1..2 |-> IntToStr(v[i])], ".")

\* System.Version.ToString(), which the [String] parameter type applies
VersionToString(v) ==
    IF v = NullVersion THEN <<>>
    ELSE Join([i \in 1..Len(v) |-> IntToStr(v[i])], ".")

(***************************************************************************)
(* Get-LatestCoobVersion (PowerShell).                                     *)
(***************************************************************************)
CoobSuffix == <<".", "c", "o", "o", "b">>

\* [System.String]::IsNullOrWhiteSpace (the alphabet has no white space)
IsNullOrWhiteSpace(s) == s = <<>>

\* the ceiling test of line 48: skip when maxVersion <= version
PsCeilingExcludesInclusive(maxVersion, version) ==
    maxVersion # NullVersion /\ VersionCompareTo(maxVersion, version) < 0

PsCeilingExcludes(maxVersion, version) ==
    maxVersion # NullVersion /\ VersionCompareTo(maxVersion, version) <= 0

\* the foreach over the properties of the response.  SubString with a
\* negative length throws; the statement is abandoned and $versionString
\* keeps the value of the previous matching property.
RECURSIVE PsScan(_, _, _, _, _)
PsScan(keys, CoobPrefix, maxVersion, latestVersion, versionString) ==
    IF keys = <<>> THEN latestVersion
    ELSE
      LET fileName == Head(keys)
          rest == Tail(keys)
          subLen == Len(fileName) - Len(CoobSuffix) - Len(CoobPrefix)
          vs == IF subLen < 0 THEN versionString
                ELSE SubSeq(fileName, Len(CoobPrefix) + 1, Len(CoobPrefix) + subLen)
          version == VersionTryParse(vs)
      IN IF ~StartsWith(fileName, CoobPrefix) \/ ~EndsWith(fileName, CoobSuffix)
         THEN PsScan(rest, CoobPrefix, maxVersion, latestVersion, versionString)
         ELSE IF version = NullVersion
         THEN PsScan(rest, CoobPrefix, maxVersion, latestVersion, vs)
         ELSE IF PsCeilingExcludes(maxVersion, version)
         THEN PsScan(rest, CoobPrefix, maxVersion, latestVersion, vs)
         ELSE IF latestVersion = NullVersion \/ VersionCompareTo(latestVersion, version) <= 0
         THEN PsScan(rest, CoobPrefix, maxVersion, version, vs)
         ELSE PsScan(rest, CoobPrefix, maxVersion, latestVersion, vs)

\* a ceiling that does not parse counts as no ceiling
ParseCeilingLenient(IgnoreVersionsUpFrom) ==
    [failed |-> FALSE,
     maxVersion |-> IF IsNullOrWhiteSpace(IgnoreVersionsUpFrom) THEN NullVersion
                    ELSE VersionTryParse(IgnoreVersionsUpFrom)]

\* lines 27-35: $maxVersion stays $null without ceiling; a ceiling that does
\* not parse ends the function after Write-Error
ParseCeiling(IgnoreVersionsUpFrom) ==
    [failed |-> /\ ~IsNullOrWhiteSpace(IgnoreVersionsUpFrom)
                /\ VersionTryParse(IgnoreVersionsUpFrom) = NullVersion,
     maxVersion |-> IF IsNullOrWhiteSpace(IgnoreVersionsUpFrom) THEN NullVersion
                    ELSE VersionTryParse(IgnoreVersionsUpFrom)]

\* the body of Get-LatestCoobVersion after the request: response is the
\* sequence of property names of the JSON object, in document order
GetLatestCoobVersion(response, CoobName, IgnoreVersionsUpFrom) ==
    LET ceiling == ParseCeiling(IgnoreVersionsUpFrom)
    IN IF ceiling.failed
       THEN NullVersion
       ELSE PsScan(response, CoobName \o DOT, ceiling.maxVersion, NullVersion, <<>>)

(***************************************************************************)
(* RestoreUnit.coobLatestVersion (JavaScript).                             *)
(***************************************************************************)
\* the JavaScript value undefined, and what string concatenation makes of it
Undefined == <<"undefined">>

UndefinedText == <<"u", "n", "d", "e", "f", "i", "n", "e", "d">>

\* RestoreUnit.coobVersion: the all-digit segments, joined by '.'
coobVersion(s) == Join(SelectSeq(Split(s, "."), IsNumeric), ".")

\* String.prototype.slice(0, -1)
DropLast(s) == IF s = <<>> THEN s ELSE SubSeq(s, 1, Len(s) - 1)

\* RestoreUnit.coobName: drop the last segment, remove the first occurrence
\* of the version text, drop the last character
coobName(s) ==
    LET x == Split(s, ".")
        name == Join(SubSeq(x, 1, Len(x) - 1), ".")
    IN DropLast(ReplaceFirstWithEmpty(name, coobVersion(name)))

\* the comparison loop of versionCompare over the numeric parts
RECURSIVE CompareParts(_, _, _)
CompareParts(v1parts, v2parts, i) ==
    IF i > Len(v1parts)
    THEN (IF Len(v1parts) # Len(v2parts) THEN -1 ELSE 0)
    ELSE IF Len(v2parts) = i - 1 THEN 1
    ELSE IF v1parts[i] = v2parts[i] THEN CompareParts(v1parts, v2parts, i + 1)
    ELSE IF v1parts[i] > v2parts[i] THEN 1
    ELSE -1

\* versionCompare without the test of the lengths after the loop
versionCompareNoLengthTest(v1, v2) ==
    LET v1parts == Split(v1, ".")
        v2parts == Split(v2, ".")
        valid(ps) == \A i \in 1..Len(ps) : IsNumeric(ps[i])
        n1 == [i \in 1..Len(v1parts) |-> ToNumber(v1parts[i])]
        n2 == [i \in 1..Len(v2parts) |-> ToNumber(v2parts[i])]
    IN IF ~valid(v1parts) \/ ~valid(v2parts)
       THEN [nan |-> TRUE, val |-> 0]
       ELSE [nan |-> FALSE,
             val |-> IF Len(n1) < Len(n2) /\ n1 = SubSeq(n2, 1, Len(n1))
                     THEN 0 ELSE CompareParts(n1, n2, 1)]

\* versionCompare(v1, v2) without options: nan is set when a part is not /^\d+$/
versionCompare(v1, v2) ==
    LET v1parts == Split(v1, ".")
        v2parts == Split(v2, ".")
        valid(ps) == \A i \in 1..Len(ps) : IsNumeric(ps[i])
    IN IF ~valid(v1parts) \/ ~valid(v2parts)
       THEN [nan |-> TRUE, val |-> 0]
       ELSE [nan |-> FALSE,
             val |-> CompareParts([i \in 1..Len(v1parts) |-> ToNumber(v1parts[i])],
                                  [i \in 1..Len(v2parts) |-> ToNumber(v2parts[i])], 1)]

\* x.sort(versionCompare); x[x.length - 1].  With a consistent comparator the
\* sort is stable, so the last element is the last of the greatest ones; a
\* comparator that answers NaN leaves the order to the implementation.
SortedLast(x) ==
    IF x = <<>> THEN {Undefined}
    ELSE IF Len(x) = 1 THEN {x[1]}
    ELSE IF \E i, j \in 1..Len(x) : i # j /\ versionCompare(x[i], x[j]).nan
    THEN {x[i] : i \in 1..Len(x)}
    ELSE {x[i] : i \in {k \in 1..Len(x) :
                          /\ \A j \in 1..Len(x) : versionCompare(x[j], x[k]).val <= 0
                          /\ \A j \in (k + 1)..Len(x) : versionCompare(x[j], x[k]).val < 0}}

\* the filter of coobLatestVersion: keys whose coobName is the package
KeysOfCoob(keys, name) ==
    SelectSeq(keys, LAMBDA e : coobName(e) = name)

\* coobLatestVersion(coobName, body): the set of values it can return
coobLatestVersion(name, body) ==
    LET x == KeysOfCoob(body, name)
    IN SortedLast([i \in 1..Len(x) |-> coobVersion(x[i])])

\* the text of a version inside a URL or file name
VersionText(v) == IF v = Undefined THEN UndefinedText ELSE v

(***************************************************************************)
(* The regular expressions that split "<name>.<version>", and              *)
(* ReadCoobVersions (version-tools.js).                                    *)
(***************************************************************************)
\* the last position of the longest run of digits of s that starts at
\* position i; i - 1 when s has no digit there
RECURSIVE DigitRunEnd(_, _)
DigitRunEnd(s, i) ==
    IF i <= Len(s) /\ s[i] \in Digit THEN DigitRunEnd(s, i + 1) ELSE i - 1

\* \.\d+\.\d+\.\d+ matched at position p of s: the last position of the
\* match, 0 without match.  A \d+ that is followed by \. takes its whole run.
DottedTripleEnd(s, p) ==
    LET r1 == DigitRunEnd(s, p + 1)
        r2 == DigitRunEnd(s, r1 + 2)
        r3 == DigitRunEnd(s, r2 + 2)
    IN IF /\ p >= 1 /\ p <= Len(s) /\ s[p] = "."
          /\ r1 >= p + 1
          /\ r1 + 1 <= Len(s) /\ s[r1 + 1] = "."
          /\ r2 >= r1 + 2
          /\ r2 + 1 <= Len(s) /\ s[r2 + 1] = "."
          /\ r3 >= r2 + 2
       THEN r3 ELSE 0

\* the result of a match: groups name and version, or no match
NoMatch == [matched |-> FALSE, name |-> <<>>, version |-> <<>>]

\* the greatest and the least element of a set of positions
MaxOf(S) == CHOOSE x \in S : \A y \in S : y <= x

MinOf(S) == CHOOSE x \in S : \A y \in S : x <= y

\* <name>\.(\d+\.\d+\.\d+) searched in s, where the name is one or more
\* characters outside the set excluded: the leftmost start, and for it the
\* longest name if the quantifier is greedy, the shortest if it is lazy
NameDotVersionMatch(s, excluded, greedy) ==
    LET ok(k, j) == /\ \A m \in k..j : s[m] \notin excluded
                    /\ DottedTripleEnd(s, j + 1) # 0
        starts == {k \in 1..Len(s) : \E j \in k..Len(s) : ok(k, j)}
    IN IF starts = {} THEN NoMatch
       ELSE LET k == MinOf(starts)
                ends == {x \in k..Len(s) : ok(k, x)}
                j == IF greedy THEN MaxOf(ends) ELSE MinOf(ends)
            IN [matched |-> TRUE,
                name |-> SubSeq(s, k, j),
                version |-> SubSeq(s, j + 2, DottedTripleEnd(s, j + 1))]

\* the characters a name of CoobDependencyRegex cannot hold: [^;]
Semicolon == {";"}

\* CoobDependencyRegex.exec with a lazy [^;]+?
CoobDependencyRegexLazy(value) == NameDotVersionMatch(value, Semicolon, FALSE)

\* CoobDependencyRegex.exec(value): /(?<coobId>[^;]+)\.(?<coobVersion>\d+\.\d+\.\d+)/
\* [^;]+ is greedy, the expression is not anchored
CoobDependencyRegex(value) == NameDotVersionMatch(value, Semicolon, TRUE)

UpperCaseLetters ==
    <<"A", "B", "C", "D", "E", "F", "G", "H", "I", "J", "K", "L", "M",
      "N", "O", "P", "Q", "R", "S", "T", "U", "V", "W", "X", "Y", "Z">>

LowerCaseLetters ==
    <<"a", "b", "c", "d", "e", "f", "g", "h", "i", "j", "k", "l", "m",
      "n", "o", "p", "q", "r", "s", "t", "u", "v", "w", "x", "y", "z">>

\* String.prototype.toLowerCase
toLowerCase(s) ==
    [i \in 1..Len(s) |->
        IF \E k \in 1..Len(UpperCaseLetters) : UpperCaseLetters[k] = s[i]
        THEN LowerCaseLetters[CHOOSE k \in 1..Len(UpperCaseLetters) :
                                  UpperCaseLetters[k] = s[i]]
        ELSE s[i]]

\* the loop of ReadCoobVersions over the Include attributes, from attribute i
\* on: result is a dictionary, as a set of pairs <<key, value>>
RECURSIVE ReadDependencies(_, _, _)
ReadDependencies(attrs, i, result) ==
    IF i > Len(attrs) THEN result
    ELSE LET execResult == CoobDependencyRegex(attrs[i])
             dependencyId == execResult.name
             dependencyVersion == execResult.version
             key == toLowerCase(dependencyId)
         IN ReadDependencies(attrs, i + 1,
               {e \in result : e[1] # key} \cup {<<key, dependencyVersion>>})

\* ReadCoobVersions of a manifest with the given CoobId, CoobVersion and
\* Include attributes: exec answers null for a text without match, the read
\* of execResult.groups throws and the catch handler rejects the promise
ReadCoobVersions(coobId, coobVersionText, attrs) ==
    IF \E i \in 1..Len(attrs) : ~CoobDependencyRegex(attrs[i]).matched
    THEN [rejected |-> TRUE, result |-> {}]
    ELSE [rejected |-> FALSE,
          result |-> ReadDependencies(attrs, 1,
                        {<<toLowerCase(coobId), coobVersionText>>})]

(***************************************************************************)
(* Inputs: package ids, versions, catalog keys, dependency descriptors.    *)
(***************************************************************************)
S_foo == <<"f", "o", "o">>
S_bar == <<"b", "a", "r">>
S_baz == <<"b", "a", "z">>
S_coob == <<"c", "o", "o", "b">>
S_zip == <<"z", "i", "p">>
S_x == <<"x">>

\* "n1.n2. ... .nk"
Ver(ns) == Join([i \in 1..Len(ns) |-> IntToStr(ns[i])], ".")

\* "<id>.<version>.<extension>"
Key(id, v, ext) == id \o DOT \o v \o DOT \o ext

\* package ids asked for; foo.2 has a numeric segment, baz is never listed
PackageIds == {S_foo, S_bar, S_foo \o DOT \o <<"2">>, S_baz}

\* ceilings given to Get-LatestCoobVersion; "x" does not parse
Ceilings == {<<>>, Ver(<<1, 3, 0>>), Ver(<<1, 3>>), Ver(<<2, 0, 0>>), S_x}

KeyUniverse ==
    { Key(S_foo, Ver(<<1, 2, 0>>), S_coob),
      Key(S_foo, Ver(<<1, 3, 0>>), S_coob),
      Key(S_bar, Ver(<<9, 9, 9>>), S_coob),
      Key(S_foo, Ver(<<1, 10, 0>>), S_coob),
      Key(S_foo, Ver(<<2, 1, 0, 0>>), S_coob),
      Key(S_foo, Ver(<<1, 2, 3, 4, 5>>), S_coob),
      Key(S_foo, <<"1", ".", "x">>, S_coob),
      Key(S_foo, Ver(<<9, 9, 9>>), S_zip),
      S_foo \o CoobSuffix,
      S_foo \o DOT \o CoobSuffix,
      Key(S_foo, Ver(<<1, 3>>), S_coob),
      Key(S_foo, <<"0", "1", ".", "4", ".", "0">>, S_coob) }

\* sequences without repetition of at most n elements of S
RECURSIVE DistinctSeqs(_, _)
DistinctSeqs(S, n) ==
    IF n = 0 THEN {<<>>}
    ELSE LET shorter == DistinctSeqs(S, n - 1)
         IN shorter \cup
            {Append(q, e) : <<q, e>> \in
                {<<q, e>> \in shorter \X S : \A i \in 1..Len(q) : q[i] # e}}

\* the catalog listings (JSON objects, by their keys in document order)
Listings == DistinctSeqs(KeyUniverse, MaxListing)

\* listings published by the repository in the restore runs
RunListings ==
    { <<>>,
      <<Key(S_bar, Ver(<<9, 9, 9>>), S_coob)>>,
      <<Key(S_foo, Ver(<<1, 2, 0>>), S_coob), Key(S_foo, Ver(<<1, 3, 0>>), S_coob)>> }

\* a dependency of the root manifest: the CoobReference Include attribute is
\* "<id>.<version>", the devtool hands id and version to ccm
Reference(id, v) == [id |-> id, version |-> v]

\* the text of the Include attribute
Descriptor(ref) == ref.id \o DOT \o ref.version

\* references of the form <packageId>.<major>.<minor>.<patch>; two of them
\* name the same package
WellFormedDeps ==
    { Reference(S_bar, Ver(<<1, 4, 2>>)),
      Reference(S_baz, Ver(<<2, 0, 0>>)),
      Reference(S_bar, Ver(<<2, 0, 0>>)) }

\* a reference whose version has two components only
MalformedDeps == { Reference(S_baz, Ver(<<1, 0>>)) }

DepUniverse == WellFormedDeps \cup MalformedDeps

DepLists == DistinctSeqs(DepUniverse, MaxDeps)

\* the reference lists the devtool hands to ccm
ToolDepLists == DistinctSeqs(WellFormedDeps, MaxDeps)

\* files of the Coobs folder are records [folder, file, from]: the folder
\* below Coobs ("" is Coobs itself), the file name, the archive it came from
S_old == <<"o", "l", "d">>

PropsFile == <<"c", "o", "o", "b", ".", "p", "r", "o", "p", "s">>

\* the files of the archive <name>.coob: the manifest, and one file that
\* only this archive has
ArchiveFiles(name) == {PropsFile, name \o DOT \o <<"d", "l", "l">>}

\* what the Coobs folder holds before a run: nothing, or the files of an
\* earlier run
InitialFolders ==
    { {},
      { [folder |-> S_foo, file |-> PropsFile, from |-> S_old],
        [folder |-> S_foo, file |-> S_old, from |-> S_old],
        [folder |-> S_bar, file |-> S_old, from |-> S_old],
        [folder |-> S_x, file |-> S_old, from |-> S_old] } }

(***************************************************************************)
(* State.                                                                  *)
(***************************************************************************)
VARIABLES
    fin,         \* arguments of the latest-version selection under test
    fout,        \* its result
    impl,        \* "ps": Restore-Composition, "js": ccm restore
    opts,        \* the request: coobName, coobVersion, IgnoreVersionsUpFrom
    remote,      \* the repository: catalog listing, dependencies of the root manifest
    nodeThrows,  \* the node runtime ends the process on an unhandled rejection
    pc,          \* position of the restore run
    CoobVersion, \* $CoobVersion / useVersion: the resolved root version
    refs,        \* $coobReferences / props.references
    cur,         \* the fetch in progress: i = 0 for the root, i >= 1 for refs[i]
    log,         \* history of requests and stage outcomes
    zips,        \* fetches whose .zip file is in the Coobs folder
    result,      \* what the run reported: "pending", "success", "error"
    cmdPromise,  \* the promise returned by RestoreCoobsCommand
    exitCode,    \* process.exitCode
    proc,        \* the node process: "running", "exited", "crashed"
    folders,     \* the files below the Coobs folder
    runNo,       \* 1 in the first run, 2 in the run that repeats it
    snapshot     \* what the Coobs folder held at the end of the first run

vars == <<fin, fout, impl, opts, remote, nodeThrows, pc, CoobVersion, refs, cur,
          log, zips, result, cmdPromise, exitCode, proc, folders, runNo, snapshot>>

runVars == <<impl, opts, remote, nodeThrows, pc, CoobVersion, refs, cur,
             log, zips, result, cmdPromise, exitCode, proc, folders, runNo, snapshot>>

NoFin == [impl |-> "none", listing |-> <<>>, coobName |-> <<>>, ceiling |-> <<>>]

NoFout == [done |-> FALSE, latest |-> <<>>]

NoCur == [i |-> 0, dl |-> FALSE, ex |-> FALSE]

NoSnapshot == [folders |-> {}, zips |-> {}]

\* the requests: the PowerShell script takes a ceiling, the ccm command does
\* not; the ccm command may be given no package name
Requests ==
    [impl : {"ps"}, coobName : {S_foo},
     coobVersion : {<<>>, Ver(<<2, 0, 0>>), Ver(<<2, 0>>), Ver(<<1, 2, 3, 4>>)},
     ceiling : {<<>>, Ver(<<1, 3, 0>>), S_x}]
    \cup
    [impl : {"js"}, coobName : {S_foo, <<>>},
     coobVersion : {<<>>, Ver(<<2, 0, 0>>)},
     ceiling : {<<>>}]

Init ==
    /\ fin = NoFin
    /\ fout = NoFout
    /\ \E r \in Requests :
          /\ impl = r.impl
          /\ opts = [coobName |-> r.coobName, coobVersion |-> r.coobVersion,
                     ceiling |-> r.ceiling]
          /\ nodeThrows \in (IF r.impl = "js" THEN BOOLEAN ELSE {FALSE})
          /\ remote \in [listing : RunListings,
                          deps : IF r.impl = "js" THEN ToolDepLists ELSE DepLists]
    /\ folders \in InitialFolders
    /\ runNo = 1
    /\ snapshot = NoSnapshot
    /\ pc = "begin"
    /\ CoobVersion = <<>>
    /\ refs = <<>>
    /\ cur = NoCur
    /\ log = <<>>
    /\ zips = {}
    /\ result = "pending"
    /\ cmdPromise = "pending"
    /\ exitCode = "unset"
    /\ proc = "running"

\* one entry of the history
Ev(e, i) == <<e, i>>

\* the files of one folder below Coobs
InFolder(fs, folder) == {e \in fs : e.folder = folder}

\* fsx.emptyDirSync(folder)
EmptyDir(fs, folder) == fs \ InFolder(fs, folder)

\* Expand-Archive -Force / unzip with overwrite: the files of the archive are
\* written into the folder, over files of the same name; other files stay
Extract(fs, folder, archive) ==
    {e \in fs : ~(e.folder = folder /\ e.file \in ArchiveFiles(archive))}
    \cup {[folder |-> folder, file |-> f, from |-> archive] : f \in ArchiveFiles(archive)}

\* the existing output directory kept as a folder of the new one
MoveOutDirAside(fs) == {[e EXCEPT !.folder = S_old \o <<"/">> \o e.folder] : e \in fs}

\* Remove-Item -Path $OutDir -Force -Recurse and the two New-Item: what the
\* Coobs folder holds afterwards
RemoveOutDir(fs) == {}

\* the character the . of a .NET regular expression does not match
NewLine == {"\n"}

\* [regex]::Match($CoobName, "(?<coobName>.+)\.(?<coobVersion>\d+\.\d+\.\d+(.\d)*)"):
\* not anchored, .+ is greedy, (.\d)* may match nothing
RestoreCoobRegex(name) == NameDotVersionMatch(name, NewLine, TRUE)

\* $match.Groups["coobName"].Value: the empty string without match
coobNameWithoutVersion(name) == RestoreCoobRegex(name).name

\* the -CoobName of the Restore-Coob call of fetch i
PsCoobName(i) ==
    IF i = 0 THEN opts.coobName \o DOT \o CoobVersion ELSE Descriptor(refs[i])

\* the arguments of the restoreCoob call of fetch i
JsCoobName(i) == IF i = 0 THEN opts.coobName ELSE refs[i].id

JsCoobVersion(i) == IF i = 0 THEN VersionText(CoobVersion) ELSE refs[i].version

\* coobDestFolder(coobName): the folder below coobsDir
coobDestFolder(name) == name

\* the Coobs folder holds <coobName>/coob.props, the file Read-CoobDependencies
\* and coobProps read
RootExtracted ==
    \E e \in folders : e.folder = opts.coobName /\ e.file = PropsFile

\* the index of the fetch that follows fetch i
NextFetchSkipping(i) == i + 2

NextFetch(i) == i + 1

\* a response body that is not a JSON object but a text of two characters:
\* Invoke-RestMethod returns a String, whose only property is Length;
\* request leaves the body a string, whose Object.keys are its indices
StringProperties == << <<"L", "e", "n", "g", "t", "h">> >>
StringKeys == << <<"0">>, <<"1">> >>

(***************************************************************************)
(* Restore-Composition (PowerShell).  The module sets no error preference, *)
(* so a failed Invoke-RestMethod, Expand-Archive or Get-Content ends its   *)
(* own statement only and the function goes on with the next statement.    *)
(***************************************************************************)

\* lines 135-145: the version is taken from the request, or Get-LatestCoobVersion
\* asks the catalog; a run without a version returns after Write-Error
PS_ResolveVersion ==
    /\ impl = "ps" /\ pc = "begin"
    /\ IF IsNullOrWhiteSpace(opts.coobVersion)
       THEN \E outcome \in {"ok", "fail", "text"} :
              LET response == CASE outcome = "ok" -> remote.listing
                                [] outcome = "fail" -> <<>>
                                [] outcome = "text" -> StringProperties
                  v == VersionToString(
                          GetLatestCoobVersion(response, opts.coobName, opts.ceiling))
              IN /\ log' = log \o <<Ev("catalog", 0)>>
                               \o (CASE outcome = "ok" -> <<>>
                                     [] outcome = "fail" -> <<Ev("catalogFail", 0)>>
                                     [] outcome = "text" -> <<Ev("catalogMalformed", 0)>>)
                 /\ CoobVersion' = v
                 /\ IF IsNullOrWhiteSpace(v)
                    THEN result' = "error" /\ pc' = "done"
                    ELSE result' = result /\ pc' = "clean"
       ELSE /\ CoobVersion' = opts.coobVersion
            /\ pc' = "clean"
            /\ UNCHANGED <<log, result>>
    /\ UNCHANGED <<fin, fout, runNo, snapshot, folders, impl, opts, remote, nodeThrows, refs, cur, zips,
                   cmdPromise, exitCode, proc>>

\* lines 157-172: the output folder is removed and created again, the root
\* package is the first to be restored
PS_CleanOutDir ==
    /\ impl = "ps" /\ pc = "clean"
    /\ zips' = {}
    /\ folders' = RemoveOutDir(folders)
    /\ log' = Append(log, Ev("clean", 0))
    /\ cur' = NoCur
    /\ pc' = "download"
    /\ UNCHANGED <<fin, fout, runNo, snapshot, impl, opts, remote, nodeThrows, CoobVersion, refs,
                   result, cmdPromise, exitCode, proc>>

\* Restore-Coob, lines 76-85: the archive is downloaded to <name>.zip
PS_Download ==
    /\ impl = "ps" /\ pc = "download"
    /\ \E ok \in BOOLEAN :
          /\ zips' = IF ok THEN zips \cup {cur.i} ELSE zips
          /\ cur' = [cur EXCEPT !.dl = ok]
    /\ log' = Append(log, Ev("start", cur.i))
    /\ pc' = "expand"
    /\ UNCHANGED <<fin, fout, runNo, snapshot, folders, impl, opts, remote, nodeThrows, CoobVersion, refs,
                   result, cmdPromise, exitCode, proc>>

\* Restore-Coob, lines 87-93: the folder is the name group of the match,
\* Join-Path with an empty name gives $OutDir itself; Expand-Archive fails
\* without the file
PS_Expand ==
    /\ impl = "ps" /\ pc = "expand"
    /\ \E ok \in BOOLEAN :
          LET extracted == cur.i \in zips /\ ok
              extractPath == coobNameWithoutVersion(PsCoobName(cur.i))
          IN /\ cur' = [cur EXCEPT !.ex = extracted]
             /\ folders' = IF extracted
                            THEN Extract(folders, extractPath, PsCoobName(cur.i))
                            ELSE folders
    /\ pc' = "remove"
    /\ UNCHANGED <<fin, fout, runNo, snapshot, impl, opts, remote, nodeThrows, CoobVersion, refs, log,
                   zips, result, cmdPromise, exitCode, proc>>

\* Restore-Coob, lines 95-98: the archive is removed and the function returns,
\* to line 175 after the root and to the foreach after a dependency
PS_RemoveArchive ==
    /\ impl = "ps" /\ pc = "remove"
    /\ zips' = zips \ {cur.i}
    /\ log' = Append(log, Ev(IF cur.dl /\ cur.ex THEN "done" ELSE "fail", cur.i))
    /\ pc' = IF cur.i = 0 THEN "readDeps" ELSE "loop"
    /\ UNCHANGED <<fin, fout, runNo, snapshot, folders, impl, opts, remote, nodeThrows, CoobVersion, refs, cur,
                   result, cmdPromise, exitCode, proc>>

\* lines 175-179 and Read-CoobDependencies: a failed read leaves $null, which
\* the foreach takes as no dependency
PS_ReadCoobDependencies ==
    /\ impl = "ps" /\ pc = "readDeps"
    /\ \E ok \in (IF RootExtracted THEN BOOLEAN ELSE {FALSE}) :
          /\ refs' = IF ok THEN remote.deps ELSE <<>>
          /\ log' = Append(log, Ev(IF ok THEN "manifest" ELSE "manifestFail", 0))
    /\ pc' = "loop"
    /\ UNCHANGED <<fin, fout, runNo, snapshot, folders, impl, opts, remote, nodeThrows, CoobVersion, cur, zips,
                   result, cmdPromise, exitCode, proc>>

\* lines 181-185: the foreach takes the next dependency, if any
PS_NextDependency ==
    /\ impl = "ps" /\ pc = "loop"
    /\ IF NextFetch(cur.i) <= Len(refs)
       THEN /\ cur' = [i |-> NextFetch(cur.i), dl |-> FALSE, ex |-> FALSE]
            /\ pc' = "download"
       ELSE /\ cur' = cur
            /\ pc' = "copyTools"
    /\ UNCHANGED <<fin, fout, runNo, snapshot, folders, impl, opts, remote, nodeThrows, CoobVersion, refs, log,
                   zips, result, cmdPromise, exitCode, proc>>

\* lines 187-191: the tools are copied and $CoobVersion is returned
PS_CopyToolsAndReturn ==
    /\ impl = "ps" /\ pc = "copyTools"
    /\ log' = Append(log, Ev("tools", 0))
    /\ result' = "success"
    /\ pc' = "done"
    /\ UNCHANGED <<fin, fout, runNo, snapshot, folders, impl, opts, remote, nodeThrows, CoobVersion, refs, cur,
                   zips, cmdPromise, exitCode, proc>>

(***************************************************************************)
(* ccm restore (JavaScript): the command line, RestoreCoobsCommand and     *)
(* RestoreUnit.                                                            *)
(***************************************************************************)

\* a rejection nobody handles: a warning, or the end of the process
AfterUnhandledRejection == IF nodeThrows THEN "crashed" ELSE proc

\* the action of the restore command: RestoreCoobsCommand rejects without a
\* package name; otherwise restore() is started, which requests the catalog
\* page, and resolve() is called at once as the argument of then()
CLI_RestoreCommand ==
    /\ impl = "js" /\ pc = "begin" /\ proc = "running"
    /\ IF opts.coobName = <<>>
       THEN /\ cmdPromise' = "rejected"
            /\ pc' = "done"
            /\ log' = log
       ELSE /\ cmdPromise' = "resolved"
            /\ pc' = "page"
            /\ log' = Append(log, Ev("catalog", 0))
    /\ UNCHANGED <<fin, fout, runNo, snapshot, folders, impl, opts, remote, nodeThrows, CoobVersion, refs, cur,
                   zips, result, exitCode, proc>>

\* then(() => exit(0)) and catch(err => exit(-1)) of the command line
CLI_Exit ==
    /\ impl = "js" /\ proc = "running"
    /\ cmdPromise # "pending" /\ exitCode = "unset"
    /\ exitCode' = IF cmdPromise = "resolved" THEN "0" ELSE "-1"
    /\ UNCHANGED <<fin, fout, runNo, snapshot, folders, impl, opts, remote, nodeThrows, pc, CoobVersion, refs,
                   cur, log, zips, result, cmdPromise, proc>>

\* restore(), lines 16-25, with downloadPage: the page arrives (its body a
\* JSON object, or some text), the latest version is selected, the explicit version overrides it and restoreCoob of
\* the root issues its request.  A status other than 200 rejects restore();
\* a network error rejects and then throws on response.statusCode.
JS_DownloadPageDone ==
    /\ impl = "js" /\ pc = "page" /\ proc = "running"
    /\ \E outcome \in {"ok", "text", "status", "error"} :
         IF outcome \in {"ok", "text"}
         THEN \E latestVersion \in coobLatestVersion(opts.coobName,
                        IF outcome = "ok" THEN remote.listing ELSE StringKeys) :
                /\ CoobVersion' =
                      IF ~(opts.coobVersion = <<>>) THEN opts.coobVersion
                      ELSE latestVersion
                /\ log' = log \o (IF outcome = "ok" THEN <<>>
                                  ELSE <<Ev("catalogMalformed", 0)>>)
                               \o <<Ev("start", 0)>>
                /\ folders' = EmptyDir(folders, coobDestFolder(opts.coobName))
                /\ cur' = NoCur
                /\ pc' = "download"
                /\ UNCHANGED <<result, proc>>
         ELSE /\ log' = Append(log, Ev("catalogFail", 0))
              /\ result' = "error"
              /\ proc' = IF outcome = "error" THEN "crashed" ELSE AfterUnhandledRejection
              /\ pc' = "done"
              /\ UNCHANGED <<CoobVersion, cur, folders>>
    /\ UNCHANGED <<fin, fout, runNo, snapshot, impl, opts, remote, nodeThrows, refs, zips, cmdPromise,
                   exitCode>>

\* restoreCoob, lines 49-51: the write stream closes and unzip is started; the
\* body of an error response is written like any other; a network error is an
\* 'error' event without listener
JS_DownloadClose ==
    /\ impl = "js" /\ pc = "download" /\ proc = "running"
    /\ \E outcome \in {"ok", "status", "error"} :
         IF outcome = "error"
         THEN /\ log' = Append(log, Ev("fail", cur.i))
              /\ proc' = "crashed"
              /\ pc' = "stuck"
              /\ UNCHANGED <<zips, cur>>
         ELSE /\ zips' = zips \cup {cur.i}
              /\ cur' = [cur EXCEPT !.dl = (outcome = "ok")]
              /\ pc' = "unzip"
              /\ UNCHANGED <<log, proc>>
    /\ UNCHANGED <<fin, fout, runNo, snapshot, folders, impl, opts, remote, nodeThrows, CoobVersion, refs, result,
                   cmdPromise, exitCode>>

\* what restore() does when the await of restoreCoob(i) returns: coobProps
\* after the root, the next reference after a dependency, the end after the last
JS_AfterRestoreCoob(i, history) ==
    IF i = 0
    THEN /\ pc' = "props"
         /\ log' = history
         /\ UNCHANGED <<cur, result>>
    ELSE IF NextFetch(i) <= Len(refs)
    THEN /\ pc' = "download"
         /\ cur' = [i |-> NextFetch(i), dl |-> FALSE, ex |-> FALSE]
         /\ log' = Append(history, Ev("start", NextFetch(i)))
         /\ result' = result
    ELSE /\ pc' = "done"
         /\ result' = "success"
         /\ log' = history
         /\ cur' = cur

\* restoreCoob, lines 51-58: unzip ends.  On success the archive is unlinked
\* and the promise resolved; on failure the catch handler throws, which
\* settles nothing: the promise of restoreCoob stays pending
JS_UnzipDone ==
    /\ impl = "js" /\ pc = "unzip" /\ proc = "running"
    /\ \E ok \in (IF cur.dl THEN BOOLEAN ELSE {FALSE}) :
         IF ok
         THEN /\ zips' = zips \ {cur.i}
              /\ JS_AfterRestoreCoob(cur.i, Append(log, Ev("done", cur.i)))
              /\ LET unzipped == Extract(folders, coobDestFolder(JsCoobName(cur.i)),
                                          JsCoobName(cur.i) \o DOT \o JsCoobVersion(cur.i))
                 IN folders' =
                       IF cur.i # 0 /\ NextFetch(cur.i) <= Len(refs)
                       THEN EmptyDir(unzipped, coobDestFolder(refs[NextFetch(cur.i)].id))
                       ELSE unzipped
              /\ proc' = proc
         ELSE /\ log' = Append(log, Ev("fail", cur.i))
              /\ proc' = AfterUnhandledRejection
              /\ pc' = "stuck"
              /\ UNCHANGED <<zips, cur, result, folders>>
    /\ UNCHANGED <<fin, fout, runNo, snapshot, impl, opts, remote, nodeThrows, CoobVersion, refs,
                   cmdPromise, exitCode>>

\* restore(), lines 27-34: coobProps ends; its references are restored one
\* after the other; a failure rejects restore(), and the catch handler of
\* RestoreCoobsCommand throws on the undeclared errorMessage
JS_CoobPropsDone ==
    /\ impl = "js" /\ pc = "props" /\ proc = "running"
    /\ \E ok \in BOOLEAN :
         IF ok
         THEN /\ refs' = remote.deps
              /\ IF Len(remote.deps) >= 1
                 THEN /\ cur' = [i |-> 1, dl |-> FALSE, ex |-> FALSE]
                      /\ log' = log \o <<Ev("manifest", 0), Ev("start", 1)>>
                      /\ folders' = EmptyDir(folders, coobDestFolder(remote.deps[1].id))
                      /\ pc' = "download"
                      /\ result' = result
                 ELSE /\ log' = Append(log, Ev("manifest", 0))
                      /\ result' = "success"
                      /\ pc' = "done"
                      /\ UNCHANGED <<cur, folders>>
              /\ proc' = proc
         ELSE /\ log' = Append(log, Ev("manifestFail", 0))
              /\ result' = "error"
              /\ proc' = AfterUnhandledRejection
              /\ pc' = "done"
              /\ UNCHANGED <<refs, cur, folders>>
    /\ UNCHANGED <<fin, fout, runNo, snapshot, impl, opts, remote, nodeThrows, CoobVersion, zips,
                   cmdPromise, exitCode>>

\* nothing is pending any more: the process ends with process.exitCode
JS_ProcessEnd ==
    /\ impl = "js" /\ proc = "running"
    /\ pc \in {"done", "stuck"}
    /\ exitCode # "unset"
    /\ proc' = "exited"
    /\ UNCHANGED <<fin, fout, runNo, snapshot, folders, impl, opts, remote, nodeThrows, pc, CoobVersion, refs,
                   cur, log, zips, result, cmdPromise, exitCode>>

Next ==
    \/ PS_ResolveVersion
    \/ PS_CleanOutDir
    \/ PS_Download
    \/ PS_Expand
    \/ PS_RemoveArchive
    \/ PS_ReadCoobDependencies
    \/ PS_NextDependency
    \/ PS_CopyToolsAndReturn
    \/ CLI_RestoreCommand
    \/ CLI_Exit
    \/ JS_DownloadPageDone
    \/ JS_DownloadClose
    \/ JS_UnzipDone
    \/ JS_CoobPropsDone
    \/ JS_ProcessEnd

Spec == Init /\ [][Next]_vars

(***************************************************************************)
(* The latest-version selection on its own: every listing of at most       *)
(* MaxListing keys, every package id, every ceiling.                       *)
(***************************************************************************)
LatestInputs ==
    [impl : {"ps"}, listing : Listings, coobName : PackageIds, ceiling : Ceilings]
    \cup
    [impl : {"js"}, listing : Listings, coobName : PackageIds, ceiling : {<<>>}]

InitLatest ==
    /\ fin \in LatestInputs
    /\ fout = NoFout
    /\ impl = "none"
    /\ opts = [coobName |-> <<>>, coobVersion |-> <<>>, ceiling |-> <<>>]
    /\ remote = [listing |-> <<>>, deps |-> <<>>]
    /\ nodeThrows = FALSE
    /\ pc = "idle"
    /\ CoobVersion = <<>>
    /\ refs = <<>>
    /\ cur = NoCur
    /\ log = <<>>
    /\ zips = {}
    /\ result = "pending"
    /\ cmdPromise = "pending"
    /\ exitCode = "unset"
    /\ proc = "running"
    /\ folders = {}
    /\ runNo = 1
    /\ snapshot = NoSnapshot

\* $CoobVersion = Get-LatestCoobVersion ... (psm1 line 138)
Call_GetLatestCoobVersion ==
    /\ fin.impl = "ps" /\ ~fout.done
    /\ fout' = [done |-> TRUE,
                latest |-> VersionToString(
                    GetLatestCoobVersion(fin.listing, fin.coobName, fin.ceiling))]
    /\ UNCHANGED <<fin, runVars>>

\* let latestVersion = this.coobLatestVersion(name, body) (restore.js line 19)
Call_coobLatestVersion ==
    /\ fin.impl = "js" /\ ~fout.done
    /\ \E latestVersion \in coobLatestVersion(fin.coobName, fin.listing) :
          fout' = [done |-> TRUE, latest |-> latestVersion]
    /\ UNCHANGED <<fin, runVars>>

NextLatest ==
    \/ Call_GetLatestCoobVersion
    \/ Call_coobLatestVersion

LatestSpec == InitLatest /\ [][NextLatest]_vars

(***************************************************************************)
(* Vocabulary of the properties.                                           *)
(***************************************************************************)
\* number of requests sent to the catalog listing endpoint
CatalogRequests == Cardinality({k \in 1..Len(log) : log[k] = Ev("catalog", 0)})

\* the request names a root version
HasExplicitVersion == opts.coobVersion # <<>>

\* the archive fetches started so far, in order
Starts == SelectSeq(log, LAMBDA e : e[1] = "start")

\* some stage of the run failed
SomeStageFailed ==
    \E k \in 1..Len(log) :
        log[k][1] \in {"fail", "manifestFail", "catalogFail", "catalogMalformed"}

\* fetch i was downloaded, extracted and its archive deleted
FetchDone(i) == \E k \in 1..Len(log) : log[k] = Ev("done", i)

\* the root fetch, the manifest read and the fetch of every declared
\* dependency have completed successfully
AllStagesCompleted ==
    /\ FetchDone(0)
    /\ \E k \in 1..Len(log) : log[k] = Ev("manifest", 0)
    /\ \A i \in 1..Len(remote.deps) : FetchDone(i)
    /\ ~SomeStageFailed

\* the run reports success to its caller
SuccessReported == result = "success" \/ cmdPromise = "resolved"

\* the run has reached Failed
Failed == result = "error" \/ cmdPromise = "rejected" \/ proc = "crashed"

\* the run has reached DependenciesFetched or Failed
Settled == result = "success" \/ Failed

\* the run can take no further step: Restore-Composition has returned, or
\* the node process has ended
RunEnded ==
    \/ impl = "ps" /\ pc = "done"
    \/ impl = "js" /\ proc # "running"

\* component-wise numeric order of versions (a proper prefix is smaller)
RECURSIVE VLess(_, _)
VLess(a, b) ==
    IF b = <<>> THEN FALSE
    ELSE IF a = <<>> THEN TRUE
    ELSE IF a[1] # b[1] THEN a[1] < b[1]
    ELSE VLess(Tail(a), Tail(b))

\* the version token of a key "<packageId>.<token>.coob", as a one-element
\* set; empty for a key that is not of that form
TokenOf(key, id) ==
    LET plen == Len(id) + 1
    IN IF /\ Len(key) >= plen + Len(CoobSuffix)
          /\ SubSeq(key, 1, plen) = id \o DOT
          /\ SubSeq(key, Len(key) - Len(CoobSuffix) + 1, Len(key)) = CoobSuffix
       THEN {SubSeq(key, plen + 1, Len(key) - Len(CoobSuffix))}
       ELSE {}

\* a version token of 2..4 all-digit components
Parseable(token) ==
    LET parts == Split(token, ".")
    IN Len(parts) \in 2..4 /\ \A i \in 1..Len(parts) : IsNumeric(parts[i])

\* the numbers of a dotted digit string
Numbers(token) ==
    LET parts == Split(token, ".") IN [i \in 1..Len(parts) |-> ToNumber(parts[i])]

\* the versions a listing publishes for a package
ListedVersions(listing, id) ==
    {Numbers(t) : t \in {u \in UNION {TokenOf(listing[k], id) : k \in 1..Len(listing)} :
                            Parseable(u)}}

\* the greatest element of a non-empty set of versions
Greatest(V) == CHOOSE v \in V : \A w \in V : w = v \/ VLess(w, v)

\* a selection that found no version
NotFound(latest) == latest = <<>> \/ latest = Undefined

\* the selection returned the greatest version of V, or NotFound for no version
IsLatestOf(latest, V) ==
    IF V = {} THEN NotFound(latest)
    ELSE ~NotFound(latest) /\ Parseable(latest) /\ Numbers(latest) = Greatest(V)

\* the listing without the keys of the package whose version token does not parse
WithoutUnparseable(listing, id) ==
    SelectSeq(listing, LAMBDA key : \A t \in TokenOf(key, id) : Parseable(t))

(***************************************************************************)
(* Properties of the restore run.                                          *)
(***************************************************************************)

\* C1: a run whose request carries an explicit root version never sends a
\* request to the catalog listing endpoint.
C1_NoCatalogWithExplicitVersion ==
    HasExplicitVersion => CatalogRequests = 0

\* C2: fetches are strictly sequential and in manifest order: a dependency
\* fetch starts only right after the manifest read (first dependency) or right
\* after the end of the previous dependency fetch, no archive of an earlier
\* fetch is still on disk, and a run in which every stage succeeded has
\* started exactly the fetches 0 (root), 1, ..., N in this order.
C2_SequentialFetches ==
    /\ \A k \in 1..Len(log) :
          (log[k][1] = "start" /\ log[k][2] >= 1) =>
             /\ k >= 4
             /\ \E m \in 1..(k - 1) : log[m] = Ev("manifest", 0)
             /\ IF log[k][2] = 1
                THEN log[k - 1] = Ev("manifest", 0) /\ log[k - 2] = Ev("done", 0)
                ELSE log[k - 1] \in {Ev("done", log[k][2] - 1), Ev("fail", log[k][2] - 1)}
    /\ zips \subseteq {cur.i}
    /\ (result = "success" /\ ~SomeStageFailed) =>
          Starts = [j \in 1..(Len(remote.deps) + 1) |-> Ev("start", j - 1)]

C2_Witness ==
    /\ result = "success" /\ ~SomeStageFailed
    /\ Len(remote.deps) >= 2
    /\ Len(Starts) = Len(remote.deps) + 1

\* C3: after the fetch of a dependency has failed no further fetch is started,
\* and a run that has ended after a failed dependency fetch has reported an error.
C3_FailFastOnDependency ==
    \A k \in 1..Len(log) :
        (log[k][1] = "fail" /\ log[k][2] >= 1) =>
            /\ \A m \in (k + 1)..Len(log) : log[m][1] # "start"
            /\ (RunEnded => Failed)

\* C4: success is reported only if the root fetch, the manifest read and every
\* dependency fetch have completed successfully.
C4_SuccessOnlyAfterAllStages ==
    SuccessReported => AllStagesCompleted

\* C5: no run ends unsettled: once the function has returned or the process
\* has ended, the run has reached DependenciesFetched or Failed.
C5_EveryRunSettles ==
    RunEnded => Settled

\* C6: the exit code of the restore command is 0 only when the restore run
\* has finished successfully.
C6_ExitCodeZeroOnlyAfterSuccess ==
    exitCode = "0" => (result = "success" /\ AllStagesCompleted)

\* C7: for a request without explicit version whose catalog request succeeded,
\* the selection finds no version exactly when the listing has no key
\* "<packageId>.<version>.coob" with a parseable version below the ceiling, and
\* then the run fails without starting any archive fetch.
C7_NoVersionAvailable ==
    (/\ ~HasExplicitVersion
     /\ pc \notin {"begin", "page"}
     /\ opts.coobName # <<>>
     /\ \A k \in 1..Len(log) : log[k][1] # "catalogFail") =>
        LET V == {v \in ListedVersions(remote.listing, opts.coobName) :
                     opts.ceiling = <<>> \/ VLess(v, Numbers(opts.ceiling))}
        IN /\ NotFound(CoobVersion) <=> V = {}
           /\ NotFound(CoobVersion) => (Starts = <<>> /\ result = "error")

(***************************************************************************)
(* Properties of the latest-version selection.                             *)
(***************************************************************************)

\* C8: without ceiling the selection returns the greatest of the versions
\* parsed from the keys "<packageId>.<version>.coob" of the listing, and
\* NotFound when there is none.
C8_LatestIsGreatestListed ==
    (fout.done /\ fin.ceiling = <<>>) =>
        IsLatestOf(fout.latest, ListedVersions(fin.listing, fin.coobName))

C10_UnparseableKeysSkipped ==
    fout.done =>
        LET clean == WithoutUnparseable(fin.listing, fin.coobName)
        IN IF fin.impl = "ps"
           THEN fout.latest = VersionToString(
                                  GetLatestCoobVersion(clean, fin.coobName, fin.ceiling))
           ELSE fout.latest \in coobLatestVersion(fin.coobName, clean)

(***************************************************************************)
(* IsValidVersion and IsValidVersionComponent (helpers.js).                *)
(***************************************************************************)
\* longest dotted text given to IsValidVersion, in components
MaxParts == 5

\* String.prototype.split(c, limit): at most limit pieces, the rest is dropped
SplitLimit(s, c, limit) ==
    LET parts == Split(s, c)
    IN IF Len(parts) > limit THEN SubSeq(parts, 1, limit) ELSE parts

\* IsValidVersionComponent without the test of the first character
IsValidVersionComponentLeadingZero(s) ==
    /\ Len(s) >= 1
    /\ \A i \in 1..Len(s) : s[i] \in Digit
    /\ InInt32Range(s)

\* IsValidVersionComponent(s): one digit, or a digit string that starts with
\* '1'..'9' and whose parseInt is at most 2147483647
IsValidVersionComponent(s) ==
    IF Len(s) < 1 THEN FALSE
    ELSE IF Len(s) < 2 THEN s[1] \in Digit
    ELSE IF s[1] \notin (Digit \ {"0"}) THEN FALSE
    ELSE IF \E i \in 2..Len(s) : s[i] \notin Digit THEN FALSE
    ELSE InInt32Range(s)

\* IsValidVersion(s)
IsValidVersion(s) ==
    LET parts == SplitLimit(s, ".", 5)
        length == Len(parts)
    IN IF length < 2 \/ length > 4 THEN FALSE
       ELSE IF ~IsValidVersionComponent(parts[1]) \/ ~IsValidVersionComponent(parts[2])
       THEN FALSE
       ELSE IF length < 3 THEN TRUE
       ELSE IF ~IsValidVersionComponent(parts[3]) THEN FALSE
       ELSE IF length < 4 THEN TRUE
       ELSE IsValidVersionComponent(parts[4])

\* component texts: empty, "0", "x", "01", "10", "1x", 2^31 - 1 and 2^31
ComponentTexts ==
    { <<>>, <<"0">>, <<"x">>, <<"0", "1">>, <<"1", "0">>, <<"1", "x">>,
      Int32MaxDigits,
      <<"2", "1", "4", "7", "4", "8", "3", "6", "4", "8">> }

\* the non-empty sequences of at most n elements of S
RECURSIVE SeqsUpTo(_, _)
SeqsUpTo(S, n) ==
    IF n = 0 THEN {}
    ELSE LET shorter == SeqsUpTo(S, n - 1)
         IN {<<e>> : e \in S} \cup shorter
            \cup {Append(q, e) : <<q, e>> \in {qe \in shorter \X S : Len(qe[1]) = n - 1}}

\* the variables of the restore runs, idle
RunIdle ==
    /\ impl = "none"
    /\ opts = [coobName |-> <<>>, coobVersion |-> <<>>, ceiling |-> <<>>]
    /\ remote = [listing |-> <<>>, deps |-> <<>>]
    /\ nodeThrows = FALSE
    /\ pc = "idle"
    /\ CoobVersion = <<>>
    /\ refs = <<>>
    /\ cur = NoCur
    /\ log = <<>>
    /\ zips = {}
    /\ result = "pending"
    /\ cmdPromise = "pending"
    /\ exitCode = "unset"
    /\ proc = "running"
    /\ folders = {}
    /\ runNo = 1
    /\ snapshot = NoSnapshot

\* the text s given to IsValidVersion is put together from n components
InitValid ==
    /\ fin = [fn |-> "IsValidVersion", s |-> <<>>, n |-> 0]
    /\ fout = NoFout
    /\ RunIdle

\* one more component, after a '.', at the end of the text
Input_Component ==
    /\ fin.fn = "IsValidVersion" /\ ~fout.done
    /\ fin.n < MaxParts
    /\ \E c \in ComponentTexts :
          fin' = [fin EXCEPT !.s = IF fin.n = 0 THEN c ELSE fin.s \o DOT \o c,
                             !.n = fin.n + 1]
    /\ UNCHANGED <<fout, runVars>>

\* a call of IsValidVersion(s)
Call_IsValidVersion ==
    /\ fin.fn = "IsValidVersion" /\ ~fout.done
    /\ fin.n >= 1
    /\ fout' = [done |-> TRUE, valid |-> IsValidVersion(fin.s)]
    /\ UNCHANGED <<fin, runVars>>

NextValid == Input_Component \/ Call_IsValidVersion

ValidSpec == InitValid /\ [][NextValid]_vars

\* a version text as the format describes it: 2 to 4 components, each of
\* digits only, without a leading zero unless it is "0", at most 2147483647
WellFormedComponent(c) ==
    /\ c # <<>>
    /\ \A i \in 1..Len(c) : c[i] \in Digit
    /\ (c[1] = "0" => c = <<"0">>)
    /\ InInt32Range(c)

WellFormedVersion(s) ==
    LET parts == Split(s, ".")
    IN /\ Len(parts) \in 2..4
       /\ \A i \in 1..Len(parts) : WellFormedComponent(parts[i])

\* C11: IsValidVersion returns true exactly for the texts of 2, 3 or 4
\* components that are all digits, without leading zero unless "0", and at
\* most 2147483647; for every other text it returns false (a value)
C11_ValidExactlyWellFormed ==
    fout.done => /\ fout.valid \in BOOLEAN
                 /\ fout.valid <=> WellFormedVersion(fin.s)

\* a four-component text with the component 2147483647 was accepted and
\* the call was made
C11_Witness ==
    /\ fout.done /\ fout.valid
    /\ Len(Split(fin.s, ".")) = 4
    /\ \E i \in 1..4 : Split(fin.s, ".")[i] = Int32MaxDigits

(***************************************************************************)
(* versionCompare on valid versions.                                       *)
(***************************************************************************)
\* components of the versions compared: 2 < 10 as numbers, "10" < "2" as text
ComparedComponents == {<<"2">>, <<"1", "0">>}

\* the valid versions compared: 2, 3 and 4 components
ComparedVersions ==
    {Join(parts, ".") : parts \in
        {q \in SeqsUpTo(ComparedComponents, 4) : Len(q) >= 2}}

InitCompare ==
    /\ fin \in [fn : {"versionCompare"}, a : ComparedVersions, b : ComparedVersions,
                c : ComparedVersions]
    /\ fout = NoFout
    /\ RunIdle

\* the comparisons a sort makes among three versions
Call_versionCompare ==
    /\ fin.fn = "versionCompare" /\ ~fout.done
    /\ fout' = [done |-> TRUE,
                ab |-> versionCompare(fin.a, fin.b),
                ba |-> versionCompare(fin.b, fin.a),
                aa |-> versionCompare(fin.a, fin.a),
                bc |-> versionCompare(fin.b, fin.c),
                ac |-> versionCompare(fin.a, fin.c)]
    /\ UNCHANGED <<fin, runVars>>

CompareSpec == InitCompare /\ [][Call_versionCompare]_vars

\* -1, 0 or 1 by the left-to-right numeric order of the components
NumericOrder(a, b) ==
    IF VLess(Numbers(a), Numbers(b)) THEN -1
    ELSE IF VLess(Numbers(b), Numbers(a)) THEN 1
    ELSE 0

\* C12: for valid versions a, b, c: Compare(a, b) is greater exactly when
\* Compare(b, a) is less, Compare(a, a) is equal, Compare is transitive, and
\* it agrees with the left-to-right numeric comparison of the components
C12_CompareIsNumericOrder ==
    fout.done =>
        /\ IsValidVersion(fin.a) /\ IsValidVersion(fin.b) /\ IsValidVersion(fin.c)
        /\ ~fout.ab.nan /\ ~fout.ba.nan /\ ~fout.aa.nan /\ ~fout.bc.nan /\ ~fout.ac.nan
        /\ (fout.ab.val = 1 <=> fout.ba.val = -1)
        /\ fout.aa.val = 0
        /\ (fout.ab.val = -1 /\ fout.bc.val = -1 => fout.ac.val = -1)
        /\ (fout.ab.val <= 0 /\ fout.bc.val <= 0 => fout.ac.val <= 0)
        /\ fout.ab.val = NumericOrder(fin.a, fin.b)

\* a chain a < b < c was compared in which text order and numeric order
\* differ and the versions have different numbers of components
C12_Witness ==
    /\ fout.done
    /\ fout.ab.val = -1 /\ fout.bc.val = -1 /\ fout.ba.val = 1
    /\ fin.a = Ver(<<2, 2>>) /\ fin.b = Ver(<<2, 2, 10>>) /\ fin.c = Ver(<<2, 10>>)

(***************************************************************************)
(* ReadCoobVersions on a manifest with one dependency descriptor.          *)
(***************************************************************************)
S_CoralCommon == <<"C", "o", "r", "a", "l", ".", "C", "o", "m", "m", "o", "n">>

S_CoralAtoll == <<"C", "o", "r", "a", "l", ".", "A", "t", "o", "l", "l">>

\* package ids of the descriptors: plain, with upper-case letters, with one
\* numeric segment, with three numeric segments
DescriptorIds == {S_foo, S_CoralCommon, S_foo \o DOT \o <<"2">>, S_foo \o DOT \o Ver(<<1, 2, 3>>)}

\* the three-component versions over 0, 7 and 10
DescriptorVersions == {Ver(<<a, b, c>>) : a, b, c \in {0, 7, 10}}

InitDependency ==
    /\ fin \in [fn : {"ReadCoobVersions"}, id : DescriptorIds, v : DescriptorVersions]
    /\ fout = NoFout
    /\ RunIdle

\* ReadCoobVersions of the manifest of Coral.Atoll 1.0.0 with the one
\* CoobReference "<id>.<v>": dependencyId and dependencyVersion of the loop,
\* and the dictionary that is resolved
Call_ReadCoobVersions ==
    /\ fin.fn = "ReadCoobVersions" /\ ~fout.done
    /\ LET value == fin.id \o DOT \o fin.v
           execResult == CoobDependencyRegex(value)
           r == ReadCoobVersions(S_CoralAtoll, Ver(<<1, 0, 0>>), <<value>>)
       IN fout' = [done |-> TRUE, rejected |-> r.rejected, result |-> r.result,
                   dependencyId |-> execResult.name,
                   dependencyVersion |-> execResult.version]
    /\ UNCHANGED <<fin, runVars>>

DependencySpec == InitDependency /\ [][Call_ReadCoobVersions]_vars

FetchId(i) == IF i = 0 THEN opts.coobName ELSE refs[i].id

FetchVersion(i) ==
    IF i = 0 THEN (IF impl = "js" THEN VersionText(CoobVersion) ELSE CoobVersion)
    ELSE refs[i].version

FetchArchive(i) == FetchId(i) \o DOT \o FetchVersion(i)

\* the fetches the run has started
FetchesStarted == {i \in 0..Len(refs) : \E k \in 1..Len(log) : log[k] = Ev("start", i)}

\* number of components of a dotted text
Components(v) == Len(Split(v, "."))

\* the text is <name>.<major>.<minor>.<patch> with optional further numeric
\* components and a non-empty name
MatchesNameVersion(text) ==
    \E j \in 1..Len(text) :
        LET rest == Split(SubSeq(text, j + 1, Len(text)), ".")
        IN /\ j < Len(text) /\ text[j + 1] = "."
           /\ Len(rest) >= 4
           /\ \A k \in 2..Len(rest) : IsNumeric(rest[k])

\* C14: the files of an archive <packageId>.<version> with a version of three
\* or four components are extracted into the folder <packageId> and nowhere
\* else; after the root fetch that folder holds the manifest the run reads
C14_ExtractsIntoPackageFolder ==
    \A i \in FetchesStarted :
        Components(FetchVersion(i)) \in {3, 4} /\ IsValidVersion(FetchVersion(i)) =>
            /\ \A e \in folders : e.from = FetchArchive(i) => e.folder = FetchId(i)
            /\ (i = 0 /\ FetchDone(0) /\ pc \in {"readDeps", "props"}) => RootExtracted

\* C15: when the name given to Restore-Coob does not match the name.version
\* pattern, nothing of that archive is extracted, in particular not into the
\* Coobs folder itself, and the run ends Failed
C15_NoExtractionWithoutNameMatch ==
    impl = "ps" =>
        \A i \in FetchesStarted :
            ~MatchesNameVersion(PsCoobName(i)) =>
                /\ \A e \in folders : e.from # PsCoobName(i)
                /\ RunEnded => Failed

\* the fetch whose end is the last entry of the history, as a set
LastDone ==
    IF log # <<>> /\ log[Len(log)][1] = "done" THEN {log[Len(log)][2]} ELSE {}

\* the name of fetch i is <packageId>.<major>.<minor>.<patch>
ThreeComponentFetch(i) ==
    Components(FetchVersion(i)) = 3 /\ IsValidVersion(FetchVersion(i))

\* C16: right after a package was fetched and extracted, its folder holds
\* exactly the files of the downloaded archive: no file of an earlier
\* extraction remains in it
C16_FolderHoldsExactlyTheArchive ==
    \A i \in LastDone :
        ThreeComponentFetch(i) =>
            InFolder(folders, FetchId(i)) =
                {[folder |-> FetchId(i), file |-> f, from |-> FetchArchive(i)] :
                    f \in ArchiveFiles(FetchArchive(i))}

\* C17: after a successful run no .zip file is left in the Coobs folder, and
\* the archive of a fetch is deleted only by a step after which the
\* extraction of that archive has completed successfully
C17_ArchiveDeletedAfterExtraction ==
    /\ [](RunEnded /\ result = "success" => zips = {})
    /\ [][\A i \in zips \ zips' : FetchDone(i)']_vars

(***************************************************************************)
(* The same restore run a second time: same request, same output folder,   *)
(* same repository.                                                        *)
(***************************************************************************)
\* the run has ended, reported success and every stage of it succeeded
EndedCleanly == RunEnded /\ result = "success" /\ AllStagesCompleted

\* the script or the ccm command is started again after a run that ended
\* cleanly; the Coobs folder is what that run left
Rerun ==
    /\ runNo = 1
    /\ EndedCleanly
    /\ impl = "js" => proc = "exited"
    /\ runNo' = 2
    /\ snapshot' = [folders |-> folders, zips |-> zips]
    /\ pc' = "begin"
    /\ CoobVersion' = <<>>
    /\ refs' = <<>>
    /\ cur' = NoCur
    /\ log' = <<>>
    /\ result' = "pending"
    /\ cmdPromise' = "pending"
    /\ exitCode' = "unset"
    /\ proc' = "running"
    /\ UNCHANGED <<fin, fout, impl, opts, remote, nodeThrows, folders, zips>>

NextRerun == Next \/ Rerun

RerunSpec == Init /\ [][NextRerun]_vars

\* C18: when the second run of the same request against the same output
\* folder and repository has ended like the first, the Coobs folder holds
\* exactly what it held after the first run, whatever it held before
C18_SecondRunLeavesSameContents ==
    runNo = 2 /\ EndedCleanly =>
        /\ folders = snapshot.folders
        /\ zips = snapshot.zips

\* the second ccm run has ended after restoring the root and a dependency
\* into a Coobs folder that held files of an earlier run before the first
C18_Witness ==
    /\ runNo = 2 /\ EndedCleanly
    /\ Len(refs) >= 1
    /\ \E e \in folders : e.from = S_old
    /\ \E e \in folders : e.from = FetchArchive(1)

(***************************************************************************)
(* Failure of a dependency fetch.                                          *)
(***************************************************************************)
\* the fetch of some dependency has failed
DependencyFetchFailed == \E i \in 1..Len(refs) : \E k \in 1..Len(log) : log[k] = Ev("fail", i)

\* the first dependency whose fetch failed
FirstFailedDependency ==
    CHOOSE i \in 1..Len(refs) :
        /\ \E k \in 1..Len(log) : log[k] = Ev("fail", i)
        /\ \A j \in 1..(i - 1) : ~\E k \in 1..Len(log) : log[k] = Ev("fail", j)

\* every file of the archive of fetch i is on disk as that archive held it
ArchivePresent(i) ==
    \A f \in ArchiveFiles(FetchArchive(i)) :
        \E e \in folders : e.file = f /\ e.from = FetchArchive(i)

\* C19: when a dependency fetch has failed after the root was fetched, then at
\* the end of the run the extracted files of the root and of every dependency
\* fetched before the failure are still there unchanged, and the run has
\* reported failure and no success
C19_FailedDependencyKeepsFetched ==
    RunEnded /\ FetchDone(0) /\ DependencyFetchFailed =>
        /\ ArchivePresent(0)
        /\ \A j \in 1..(FirstFailedDependency - 1) : ArchivePresent(j)
        /\ Failed
        /\ ~SuccessReported

(***************************************************************************)
(* Malformed dependency descriptors.                                       *)
(***************************************************************************)
\* some CoobReference of the root manifest is not <packageId>.<major>.<minor>.<patch>
ManifestHasMalformedDescriptor ==
    \E i \in 1..Len(remote.deps) : ~MatchesNameVersion(Descriptor(remote.deps[i]))

\* C20: when a dependency descriptor of the manifest does not match the
\* pattern, the read of the manifest fails as a whole: no dependency list is
\* produced and no dependency is fetched, neither one declared before the
\* malformed descriptor nor one declared after it
C20_MalformedDescriptorFailsRead ==
    ManifestHasMalformedDescriptor =>
        /\ refs = <<>>
        /\ \A k \in 1..Len(log) : log[k] # Ev("manifest", 0)
        /\ \A k \in 1..Len(log) : log[k][1] = "start" => log[k][2] = 0

(***************************************************************************)
(* Failure of the manifest read.                                           *)
(***************************************************************************)
\* the read of the root manifest has failed
ManifestReadFailed == \E k \in 1..Len(log) : log[k] = Ev("manifestFail", 0)

\* C21: when the root manifest cannot be read (missing, not well-formed, or
\* without the required fields), no dependency fetch is started, and the run
\* that has ended has ended Failed and has reported no success
C21_ManifestFailureFailsRun ==
    ManifestReadFailed =>
        /\ \A k \in 1..Len(log) : log[k][1] = "start" => log[k][2] = 0
        /\ RunEnded => Failed /\ ~SuccessReported

(***************************************************************************)
(* The stages of a run, read from the history of the run.                  *)
(***************************************************************************)
\* the stage work recorded by an event: a catalog request, the fetch of the
\* root with the preparation of the output directory, the manifest read, the
\* fetch of a dependency or what follows the last one
StageOf(e) ==
    CASE e[1] \in {"catalog", "catalogFail", "catalogMalformed"} -> 1
      [] e[1] = "clean" \/ (e[1] \in {"start", "done", "fail"} /\ e[2] = 0) -> 2
      [] e[1] \in {"manifest", "manifestFail"} -> 3
      [] OTHER -> 4

\* the events that record the failure of a stage
FailureEvents == {"catalogFail", "catalogMalformed", "fail", "manifestFail"}

\* the events that record that work of a stage is taken up
WorkEvents == {"catalog", "catalogFail", "start", "manifest", "manifestFail"}

\* the stages are passed in their order, none of them twice
StagesInOrder ==
    \A j, k \in 1..Len(log) :
        j < k => /\ StageOf(log[j]) <= StageOf(log[k])
                 /\ (log[j][1] \in WorkEvents /\ log[k][1] \in WorkEvents)
                        => log[j] # log[k]

\* nothing is requested, fetched or read after a stage has failed
NoWorkAfterFailure ==
    \A j, k \in 1..Len(log) :
        (j < k /\ log[j][1] \in FailureEvents) => log[k][1] \notin WorkEvents

\* nothing is requested, fetched or read once the run has ended
NoWorkAfterEnd == [][RunEnded => log' = log]_vars

\* C22: a run passes the stages in the order version resolution, root fetch,
\* manifest read, dependency fetches, none of them twice, and performs no
\* further request, download, extraction or manifest read after a failure
\* or after its end
C22_StagesInOrderAndTerminal ==
    [](StagesInOrder /\ NoWorkAfterFailure) /\ NoWorkAfterEnd

(***************************************************************************)
(* Failure of the catalog request.                                         *)
(***************************************************************************)
\* the catalog request met a network error or a status other than 200
CatalogUnavailable == \E k \in 1..Len(log) : log[k] = Ev("catalogFail", 0)

\* the catalog answered 200 with a body that is not a JSON object
CatalogMalformed == \E k \in 1..Len(log) : log[k] = Ev("catalogMalformed", 0)

\* C23: when the catalog is unavailable or its body is not a JSON object and
\* the request names no version, no version is selected, no archive fetch is
\* started, and the run that has ended has ended Failed
C23_CatalogFailureFailsRun ==
    ((CatalogUnavailable \/ CatalogMalformed) /\ ~HasExplicitVersion) =>
        /\ CoobVersion = <<>>
        /\ Starts = <<>>
        /\ RunEnded => Failed

(***************************************************************************)
(* The version of the root that is fetched and returned.                   *)
(***************************************************************************)
\* the body of the catalog response the run has worked on
CatalogBody ==
    IF CatalogMalformed
    THEN (IF impl = "ps" THEN StringProperties ELSE StringKeys)
    ELSE remote.listing

\* the text is the resolved root version: the explicit version of the
\* request, otherwise what the latest-version selection returned
IsResolvedVersion(text) ==
    IF HasExplicitVersion THEN text = opts.coobVersion
    ELSE IF impl = "ps"
    THEN /\ text # <<>>
         /\ VersionTryParse(text) =
                GetLatestCoobVersion(CatalogBody, opts.coobName, opts.ceiling)
    ELSE \E latest \in coobLatestVersion(opts.coobName, CatalogBody) :
            text = VersionText(latest)

\* the value Restore-Composition returns (psm1 line 191)
ReturnedVersion == CoobVersion

\* C24: the version of the root archive that is fetched, and the version
\* that Restore-Composition returns on success, are the resolved root
\* version: the explicit version when the request names one, whatever the
\* catalog lists, otherwise the version the latest-version selection returned
C24_RootVersionIsResolvedVersion ==
    /\ 0 \in FetchesStarted => IsResolvedVersion(FetchVersion(0))
    /\ (impl = "ps" /\ result = "success") => IsResolvedVersion(ReturnedVersion)

\* Restore-Composition without explicit version has fetched the root in the
\* latest listed version, which has three components, and returned
C24_Witness ==
    /\ impl = "ps" /\ result = "success" /\ ~HasExplicitVersion
    /\ FetchDone(0)
    /\ Components(ReturnedVersion) = 3

\* an explicit version that the catalog does not list as the latest one has
\* been fetched
ExplicitVersionNotLatestFetched ==
    /\ HasExplicitVersion /\ FetchDone(0)
    /\ \A latest \in coobLatestVersion(opts.coobName, remote.listing) :
          ~NotFound(latest) /\ latest # opts.coobVersion

(***************************************************************************)
(* The output directory and the tools of Restore-Composition.              *)
(***************************************************************************)
\* the positions of the history at which the output directory was removed
\* and created again, and at which the tools were copied
OutDirRemovals == {k \in 1..Len(log) : log[k] = Ev("clean", 0)}
ToolCopies == {k \in 1..Len(log) : log[k] = Ev("tools", 0)}

\* position k of the history lies after the end of fetch i
FetchEndedBefore(i, k) ==
    \E j \in 1..(k - 1) : log[j] \in {Ev("done", i), Ev("fail", i)}

\* the output directory is removed once, before the first fetch
OutDirRemovedOnceBeforeFetches ==
    /\ Cardinality(OutDirRemovals) <= 1
    /\ \A k \in 1..Len(log) :
          log[k][1] = "start" => \E j \in OutDirRemovals : j < k
    /\ \A j \in OutDirRemovals : \A k \in 1..(j - 1) : log[k][1] # "start"

\* the tools are copied after the fetch of the root and of every dependency
ToolsCopiedAfterFetches ==
    \A k \in ToolCopies :
        /\ Starts # <<>>
        /\ \A i \in FetchesStarted : FetchEndedBefore(i, k)
        /\ \A j \in (k + 1)..Len(log) : log[j][1] # "start"

\* C25: Restore-Composition removes and recreates the output directory once,
\* before the first archive fetch; it copies the tools only after the fetch
\* of the root and of every dependency has finished, and not at all in a run
\* in which a stage failed
C25_OutDirCleanedOnceToolsLast ==
    impl = "ps" =>
        /\ OutDirRemovedOnceBeforeFetches
        /\ ToolsCopiedAfterFetches
        /\ SomeStageFailed => ToolCopies = {}

(***************************************************************************)
(* A run of Restore-Composition without root version.                      *)
(***************************************************************************)
\* Restore-Composition has returned without a root version
NoRootVersion == impl = "ps" /\ pc = "done" /\ CoobVersion = <<>>

\* the request gives a ceiling that is not a version
UnparseableCeiling ==
    opts.ceiling # <<>> /\ VersionTryParse(opts.ceiling) = NullVersion

\* C26: a run of Restore-Composition without explicit version that finds no
\* root version, as every run with a ceiling that is not a version does,
\* has not removed or created the output directory, has downloaded no
\* archive and leaves the files of the directory as they were
C26_NoVersionLeavesFilesystem ==
    /\ []((impl = "ps" /\ pc = "done" /\ ~HasExplicitVersion /\ UnparseableCeiling)
            => NoRootVersion)
    /\ [](NoRootVersion =>
            OutDirRemovals = {} /\ Starts = <<>> /\ zips = {} /\ result = "error")
    /\ [][NoRootVersion' => folders' = folders]_vars

\* a run with the ceiling "x" has returned while the catalog lists a version
\* of the package and the output directory holds files of an earlier run
C26_Witness ==
    /\ NoRootVersion /\ UnparseableCeiling /\ ~HasExplicitVersion
    /\ ListedVersions(remote.listing, opts.coobName) # {}
    /\ ~CatalogUnavailable /\ ~CatalogMalformed
    /\ folders # {}

(***************************************************************************)
(* The two latest-version selections side by side.                         *)
(***************************************************************************)
\* the key is "<packageId>.<version>.coob" for some package id and some
\* well-formed version
CatalogKeyForm(key) ==
    \E id \in PackageIds : \E t \in TokenOf(key, id) : WellFormedVersion(t)

\* every key of the listing is of that form
CatalogForm(listing) == \A k \in 1..Len(listing) : CatalogKeyForm(listing[k])

\* the value of Get-LatestCoobVersion and a value of coobLatestVersion name
\* the same version, or both name none
SameSelection(psLatest, jsLatest) ==
    IF psLatest = NullVersion THEN jsLatest = Undefined
    ELSE jsLatest # Undefined /\ VersionToString(psLatest) = jsLatest

\* C27: on a listing whose keys are all "<packageId>.<version>.coob" with
\* well-formed versions, and without ceiling, coobLatestVersion and
\* Get-LatestCoobVersion select the same version for the same package id,
\* and both select none when the package has no key
C27_SelectionsAgree ==
    (fout.done /\ fin.ceiling = <<>> /\ CatalogForm(fin.listing)) =>
        IF fin.impl = "ps"
        THEN \A jsLatest \in coobLatestVersion(fin.coobName, fin.listing) :
                SameSelection(VersionTryParse(fout.latest), jsLatest)
        ELSE SameSelection(
                GetLatestCoobVersion(fin.listing, fin.coobName, <<>>), fout.latest)

(***************************************************************************)
(* MakeCommand (make-tools.js) with MakeRoleRpm and MakeRoleMsi: a pyramid *)
(* of promises, each stage started in the then() of the one before, each   *)
(* catch() rejecting the promise of the command.                           *)
(***************************************************************************)
MaxZipItems == 2
MaxRoles == 2

\* the stages in the order in which the source nests them
MakeStages ==
    << "ensureDir deployDir", "ChooseFreeFsName", "emptyDir distributivesDir",
       "ReadAndCheckVersions", "SaveRoleVersionsVarsFile", "ReadCoobVersions",
       "SaveCoobVersionsVarsFile", "TransformIniToXml", "makeDistributives",
       "emptyDir freeDir", "zip", "MakeRoleRpm", "MakeRoleMsi" >>

StageIndex(name) == CHOOSE k \in 1..Len(MakeStages) : MakeStages[k] = name

ZipStage == StageIndex("zip")
RpmStage == StageIndex("MakeRoleRpm")
MsiStage == StageIndex("MakeRoleMsi")

\* a promise is settled once: a later resolve() or reject() changes nothing
Settle(promise, outcome) == IF promise = "pending" THEN outcome ELSE promise

\* the command resolves after the RPM stage, on Windows after the MSI stage
\* (make-tools.js lines 136-148); this one resolves after the RPM stage always
IsLastStageEverywhereRpm(k, platform) == k = RpmStage

IsLastStage(k, platform) ==
    IF platform = "win32" THEN k = MsiStage ELSE k = RpmStage

\* process.platform, the number of zipItems, the number of roles with a template
MakeInputs ==
    [fn : {"MakeCommand"}, platform : {"win32", "linux"},
     zipItems : 0..MaxZipItems, roles : 0..MaxRoles]

\* k: the stage in progress (0: none); started, succeeded, failed: the history
\* of the stages; zip: the 7za processes; role: the position inside
\* MakeRoleRpm/MakeRoleMsi (0: ReadAndCheckVersions, j: installer of role j)
NoMake ==
    [k |-> 0, started |-> <<>>, succeeded |-> {}, failed |-> {},
     zip |-> <<>>, role |-> 0, promise |-> "pending"]

InitMake ==
    /\ fin \in MakeInputs
    /\ fout = NoMake
    /\ RunIdle

\* the then() callback of stage k: the next stage is started, or the command
\* is resolved after the last one
StageSucceeded(m, k) ==
    IF IsLastStage(k, fin.platform)
    THEN [m EXCEPT !.k = 0, !.succeeded = @ \cup {k},
                   !.promise = Settle(@, "resolved")]
    ELSE [m EXCEPT !.k = k + 1, !.succeeded = @ \cup {k},
                   !.started = Append(@, k + 1),
                   !.zip = IF k + 1 = ZipStage
                           THEN [i \in 1..fin.zipItems |-> "running"] ELSE @,
                   !.role = 0]

\* the catch() callback of stage k: ErrorAndRejectConsole(reject, ...)
StageFailed(m, k) ==
    [m EXCEPT !.k = 0, !.failed = @ \cup {k}, !.promise = Settle(@, "rejected")]

\* MakeCommand is called: fs.ensureDir(paths.deployDir) is started
Make_Begin ==
    /\ fin.fn = "MakeCommand" /\ fout.started = <<>>
    /\ fout' = [fout EXCEPT !.k = 1, !.started = <<1>>]
    /\ UNCHANGED <<fin, runVars>>

\* the promise of one of the stages before the zips settles
Make_StageSettles ==
    /\ fin.fn = "MakeCommand"
    /\ fout.k \in 1..(ZipStage - 1)
    /\ \E ok \in BOOLEAN :
          fout' = IF ok THEN StageSucceeded(fout, fout.k)
                  ELSE StageFailed(fout, fout.k)
    /\ UNCHANGED <<fin, runVars>>

\* one 7za process ends; the first failure rejects Promise.all(zipPromises)
\* while the other processes go on
Make_ZipEnds ==
    /\ fin.fn = "MakeCommand"
    /\ ZipStage \in 1..Len(fout.started)
    /\ \E i \in 1..Len(fout.zip) : \E ok \in BOOLEAN :
          /\ fout.zip[i] = "running"
          /\ LET m == [fout EXCEPT !.zip[i] = IF ok THEN "ok" ELSE "failed"]
             IN fout' = IF ok \/ fout.k # ZipStage THEN m
                        ELSE StageFailed(m, ZipStage)
    /\ UNCHANGED <<fin, runVars>>

\* Promise.all(zipPromises) is fulfilled: every zip is written (at once
\* without zipItems)
Make_ZipsDone ==
    /\ fin.fn = "MakeCommand"
    /\ fout.k = ZipStage
    /\ \A i \in 1..Len(fout.zip) : fout.zip[i] = "ok"
    /\ fout' = StageSucceeded(fout, ZipStage)
    /\ UNCHANGED <<fin, runVars>>

\* MakeRoleRpm / MakeRoleMsi: ReadAndCheckVersions settles; the chain of
\* the roles is built and the installer of the first role is started
Make_InstallerVersionsRead ==
    /\ fin.fn = "MakeCommand"
    /\ fout.k \in {RpmStage, MsiStage} /\ fout.role = 0
    /\ \E ok \in BOOLEAN :
          fout' = IF ~ok THEN StageFailed(fout, fout.k)
                  ELSE IF fin.roles = 0 THEN StageSucceeded(fout, fout.k)
                  ELSE [fout EXCEPT !.role = 1]
    /\ UNCHANGED <<fin, runVars>>

\* the installer of one role settles: the chain goes on with the next role,
\* ends, or is rejected
Make_RoleInstallerSettles ==
    /\ fin.fn = "MakeCommand"
    /\ fout.k \in {RpmStage, MsiStage} /\ fout.role >= 1
    /\ \E ok \in BOOLEAN :
          fout' = IF ~ok THEN StageFailed(fout, fout.k)
                  ELSE IF fout.role = fin.roles THEN StageSucceeded(fout, fout.k)
                  ELSE [fout EXCEPT !.role = @ + 1]
    /\ UNCHANGED <<fin, runVars>>

NextMake ==
    \/ Make_Begin
    \/ Make_StageSettles
    \/ Make_ZipEnds
    \/ Make_ZipsDone
    \/ Make_InstallerVersionsRead
    \/ Make_RoleInstallerSettles

MakeSpec == InitMake /\ [][NextMake]_vars

ZipFailedWhileOtherRunning ==
    /\ fin.fn = "MakeCommand" /\ fout.promise = "rejected"
    /\ \E i, j \in 1..Len(fout.zip) : fout.zip[i] = "failed" /\ fout.zip[j] = "running"

(***************************************************************************)
(* CheckVersions (version-tools.js).                                       *)
(***************************************************************************)
MaxEntries == 3

\* role names, and the values a versions dictionary holds for them: a valid
\* version, two strings that are no versions, a number
RoleNames == {<<"a">>, <<"b">>, <<"c">>}

RoleValues ==
    { [type |-> "string", text |-> Ver(<<1, 0, 0>>)],
      [type |-> "string", text |-> <<"1">>],
      [type |-> "string", text |-> <<"0", "1", ".", "2">>],
      [type |-> "number", text |-> <<"5">>] }

\* Array.prototype.indexOf, from 0, -1 when absent
ArrayIndexOf(arr, x) ==
    IF \E i \in 1..Len(arr) : arr[i] = x
    THEN (CHOOSE i \in 1..Len(arr) : arr[i] = x /\ \A j \in 1..(i - 1) : arr[j] # x) - 1
    ELSE -1

\* a splice that removes nothing
SpliceNothing(arr, index) == arr

\* arr.splice(index, 1)
Splice1(arr, index) ==
    SubSeq(arr, 1, index) \o SubSeq(arr, index + 2, Len(arr))

\* typeof roleVersion !== 'string' || !IsValidVersion(roleVersion)
IsInvalidRoleVersion(roleVersion) ==
    roleVersion.type # "string" \/ ~IsValidVersion(roleVersion.text)

\* the for-in loop of CheckVersions over the entries of versions that are
\* left, with the arrays built so far
RECURSIVE CheckVersionsLoop(_, _, _, _)
CheckVersionsLoop(entries, extra, missing, invalid) ==
    IF entries = <<>>
    THEN [success |-> Len(extra) + Len(missing) + Len(invalid) < 1,
          extra |-> extra, missing |-> missing, invalid |-> invalid]
    ELSE LET roleName == Head(entries).name
             roleVersion == Head(entries).value
             invalid2 == IF IsInvalidRoleVersion(roleVersion)
                         THEN Append(invalid, roleName) ELSE invalid
             index == ArrayIndexOf(missing, roleName)
         IN IF index < 0
            THEN CheckVersionsLoop(Tail(entries), Append(extra, roleName),
                                   missing, invalid2)
            ELSE CheckVersionsLoop(Tail(entries), extra,
                                   Splice1(missing, index), invalid2)

\* CheckVersions(versions, required): the dictionaries are given by their
\* entries, resp. their keys, in the order of Object.keys
CheckVersions(versions, required) ==
    CheckVersionsLoop(versions, <<>>, required, <<>>)

\* the required names are chosen at the start, the versions dictionary is
\* filled entry by entry
InitCheck ==
    /\ fin \in [fn : {"CheckVersions"}, versions : {<<>>},
                required : DistinctSeqs(RoleNames, MaxEntries)]
    /\ fout = NoFout
    /\ RunIdle

\* one more entry of the versions dictionary, under a name not yet in it
Input_RoleVersion ==
    /\ fin.fn = "CheckVersions" /\ ~fout.done
    /\ Len(fin.versions) < MaxEntries
    /\ \E n \in RoleNames : \E v \in RoleValues :
          /\ \A i \in 1..Len(fin.versions) : fin.versions[i].name # n
          /\ fin' = [fin EXCEPT !.versions = Append(@, [name |-> n, value |-> v])]
    /\ UNCHANGED <<fout, runVars>>

\* a call of CheckVersions(versions, required)
Call_CheckVersions ==
    /\ fin.fn = "CheckVersions" /\ ~fout.done
    /\ fout' = [done |-> TRUE, res |-> CheckVersions(fin.versions, fin.required)]
    /\ UNCHANGED <<fin, runVars>>

NextCheck == Input_RoleVersion \/ Call_CheckVersions

CheckSpec == InitCheck /\ [][NextCheck]_vars

\* the elements of an array
Elements(arr) == {arr[i] : i \in 1..Len(arr)}

\* the names of the versions dictionary, and those with a value that is a
\* well-formed version text
VersionNames == {fin.versions[i].name : i \in 1..Len(fin.versions)}

NamesWithVersion ==
    {fin.versions[i].name : i \in
        {j \in 1..Len(fin.versions) :
            /\ fin.versions[j].value.type = "string"
            /\ WellFormedVersion(fin.versions[j].value.text)}}

\* C29: CheckVersions reports success exactly when the names of the versions
\* dictionary are the required names and every value is a valid version;
\* missing is the required names absent from the dictionary, extra the names
\* of the dictionary that are not required, invalid the names whose value is
\* not a valid version; missing and extra are disjoint
C29_CheckVersionsExact ==
    (fin.fn = "CheckVersions" /\ fout.done) =>
        LET req == Elements(fin.required) IN
        /\ fout.res.success <=>
              (VersionNames = req /\ NamesWithVersion = VersionNames)
        /\ Elements(fout.res.missing) = req \ VersionNames
        /\ Elements(fout.res.extra) = VersionNames \ req
        /\ Elements(fout.res.invalid) = VersionNames \ NamesWithVersion
        /\ Elements(fout.res.missing) \cap Elements(fout.res.extra) = {}

\* a dictionary with a required valid entry, an entry that is not required
\* and an invalid one has been checked, while another required name is absent
C29_Witness ==
    /\ fin.fn = "CheckVersions" /\ fout.done
    /\ ~fout.res.success
    /\ fout.res.missing # <<>> /\ fout.res.extra # <<>> /\ fout.res.invalid # <<>>
    /\ Len(fin.required) > Len(fout.res.missing)

\* a dictionary of three entries has been checked with success
CheckedWithSuccess ==
    /\ fin.fn = "CheckVersions" /\ fout.done
    /\ fout.res.success /\ Len(fin.versions) = 3

(***************************************************************************)
(* ChooseFreeFsName (helpers.js).  A JavaScript number is null, NaN or an  *)
(* integer here.                                                           *)
(***************************************************************************)
MaxDirEntries == 3

JsNull == [kind |-> "null", val |-> 0]
JsNaN == [kind |-> "nan", val |-> 0]
JsNum(n) == [kind |-> "num", val |-> n]

\* parseInt(str) in base 10: an optional sign, then the longest run of
\* digits; NaN without a digit (the names have no white space and no 0x)
parseInt(str) ==
    LET signed == str # <<>> /\ str[1] \in {"-", "+"}
        rest == IF signed THEN Tail(str) ELSE str
        last == DigitRunEnd(rest, 1)
    IN IF last < 1 THEN JsNaN
       ELSE IF signed /\ str[1] = "-" THEN JsNum(0 - ToNumber(SubSeq(rest, 1, last)))
       ELSE JsNum(ToNumber(SubSeq(rest, 1, last)))

\* !x
JsNot(x) == x.kind \in {"null", "nan"} \/ (x.kind = "num" /\ x.val = 0)

\* a < b for a number or null a and a number b
JsLess(a, b) ==
    /\ a.kind # "nan" /\ b.kind # "nan"
    /\ (IF a.kind = "null" THEN 0 ELSE a.val) < b.val

\* ++x
JsIncrement(x) ==
    CASE x.kind = "null" -> JsNum(1)
      [] x.kind = "nan" -> JsNaN
      [] OTHER -> JsNum(x.val + 1)

\* Number.prototype.toString()
JsNumberToString(x) ==
    IF x.kind = "nan" THEN <<"N", "a", "N">>
    ELSE IF x.val < 0 THEN <<"-">> \o IntToStr(0 - x.val)
    ELSE IntToStr(x.val)

\* String.prototype.substring(start, end): the arguments are swapped when
\* start > end
Substring(str, start, end) ==
    LET lo == IF start <= end THEN start ELSE end
        hi == IF start <= end THEN end ELSE start
    IN SubSeq(str, lo + 1, hi)

\* num === NaN, which is false for every num
StrictEqualsNaN(num) == FALSE

\* the loop over the entries of the directory
RECURSIVE ChooseFreeLoop(_, _, _, _, _)
ChooseFreeLoop(entries, prefix, suffix, maxNumber, hasExact) ==
    IF entries = <<>> THEN [maxNumber |-> maxNumber, hasExact |-> hasExact]
    ELSE
      LET entry == Head(entries)
          numstr == Substring(entry, Len(prefix), Len(entry) - Len(suffix))
          num == parseInt(Tail(numstr))
      IN IF ~(StartsWith(entry, prefix) /\ EndsWith(entry, suffix))
         THEN ChooseFreeLoop(Tail(entries), prefix, suffix, maxNumber, hasExact)
         ELSE IF Len(numstr) < 1
         THEN ChooseFreeLoop(Tail(entries), prefix, suffix, maxNumber, TRUE)
         ELSE IF numstr[1] # "_"
         THEN ChooseFreeLoop(Tail(entries), prefix, suffix, maxNumber, hasExact)
         ELSE IF StrictEqualsNaN(num)
         THEN ChooseFreeLoop(Tail(entries), prefix, suffix, maxNumber, hasExact)
         ELSE IF JsNot(maxNumber) \/ JsLess(maxNumber, num)
         THEN ChooseFreeLoop(Tail(entries), prefix, suffix, num, hasExact)
         ELSE ChooseFreeLoop(Tail(entries), prefix, suffix, maxNumber, hasExact)

\* ChooseFreeFsName(dirPath, prefix, suffix) for a directory with the given
\* entries: the name it resolves with, below dirPath
ChooseFreeFsName(entries, prefix, suffix) ==
    LET r == ChooseFreeLoop(entries, prefix, suffix, JsNull, FALSE)
    IN IF ~r.hasExact THEN prefix \o suffix
       ELSE prefix \o <<"_">> \o JsNumberToString(JsIncrement(r.maxNumber)) \o suffix

\* prefixes and suffixes, and what stands between them in a name
S_p == <<"p">>
S_ext == <<".", "x">>

FsAffixes == {[prefix |-> S_p, suffix |-> <<>>], [prefix |-> S_p, suffix |-> S_ext]}

FsMiddles ==
    { <<>>, <<"_", "0">>, <<"_", "1">>, <<"_", "2">>, <<"_", "1", "0">>,
      <<"_", "o", "l", "d">>, <<"_", "N", "a", "N">>, <<"_", "-", "1">>,
      <<"1">>, <<"_", "2", "b">> }

\* the directory is filled entry by entry, in the order readdir reports
InitChoose ==
    /\ \E a \in FsAffixes :
          fin = [fn |-> "ChooseFreeFsName", prefix |-> a.prefix, suffix |-> a.suffix,
                 entries |-> <<>>]
    /\ fout = NoFout
    /\ RunIdle

\* one more entry in the directory: a name made of the prefix and the
\* suffix, or the name of something else
Input_DirEntry ==
    /\ fin.fn = "ChooseFreeFsName" /\ ~fout.done
    /\ Len(fin.entries) < MaxDirEntries
    /\ \E name \in {fin.prefix \o m \o fin.suffix : m \in FsMiddles} \cup {S_x} :
          /\ \A i \in 1..Len(fin.entries) : fin.entries[i] # name
          /\ fin' = [fin EXCEPT !.entries = Append(@, name)]
    /\ UNCHANGED <<fout, runVars>>

\* a call of ChooseFreeFsName
Call_ChooseFreeFsName ==
    /\ fin.fn = "ChooseFreeFsName" /\ ~fout.done
    /\ fout' = [done |-> TRUE,
                name |-> ChooseFreeFsName(fin.entries, fin.prefix, fin.suffix)]
    /\ UNCHANGED <<fin, runVars>>

NextChoose == Input_DirEntry \/ Call_ChooseFreeFsName

ChooseSpec == InitChoose /\ [][NextChoose]_vars

\* the numbers n for which the directory has the entry prefix_<n>suffix,
\* <n> a run of digits
NumbersUsed ==
    {ToNumber(d) : d \in
        {d \in {Substring(fin.entries[i], Len(fin.prefix) + 1,
                          Len(fin.entries[i]) - Len(fin.suffix)) :
                  i \in {j \in 1..Len(fin.entries) :
                           /\ Len(fin.entries[j]) > Len(fin.prefix) + Len(fin.suffix)
                           /\ StartsWith(fin.entries[j], fin.prefix \o <<"_">>)
                           /\ EndsWith(fin.entries[j], fin.suffix)}} :
            IsNumeric(d)}}

\* the directory has the entry prefix+suffix
HasExactName == \E i \in 1..Len(fin.entries) : fin.entries[i] = fin.prefix \o fin.suffix

\* the name returned is no entry of the directory
ReturnsFreeName ==
    (fin.fn = "ChooseFreeFsName" /\ fout.done) =>
        \A i \in 1..Len(fin.entries) : fin.entries[i] # fout.name

\* C30: the name ChooseFreeFsName returns is no entry of the directory; it is
\* prefix+suffix when no entry has that name, and otherwise prefix_<n>suffix
\* with n greater than every number of an entry prefix_<number>suffix
C30_ChosenNameIsFree ==
    (fin.fn = "ChooseFreeFsName" /\ fout.done) =>
        /\ \A i \in 1..Len(fin.entries) : fin.entries[i] # fout.name
        /\ ~HasExactName => fout.name = fin.prefix \o fin.suffix
        /\ HasExactName =>
              \E n \in 0..(ToNumber(<<"1", "0">>) + 1) :
                 /\ fout.name = fin.prefix \o <<"_">> \o IntToStr(n) \o fin.suffix
                 /\ \A u \in NumbersUsed : n > u
====
